---- MODULE Spec2Model ----
(***************************************************************************)
(* Booking synchronisation (Bookeo -> Azure SQL / Excel): the window       *)
(* planners, the page walkers, the upsert sinks and the orchestrators,     *)
(* each modelled from its source and checked under a specification of its  *)
(* own.  Times are whole days counted from 2026-01-01 (day 0), so          *)
(* 2026-02-01 is day 31 and 2026-02-15 is day 45.                          *)
(***************************************************************************)
EXTENDS Integers, Sequences, FiniteSets, TLC

(***************************************************************************)
(* Program constants and bounds                                            *)
(***************************************************************************)
\* bookeo_client.py: MAX_DAYS_PER_CALL; the Function App client writes 31
MAX_DAYS_PER_CALL == 31
\* latest day a requested range may end on (three windows at most)
MaxDay == 66
\* latest day a requested range may start on
MaxStart == 2
\* largest days_back / days_forward handed to fetch_bookings_by_date_range
MaxSpan == 33

\* most requests one page walk is followed for
MaxRequests == 2

\* most months the SQL bulk loader is asked for (--months)
MaxMonths == 2
\* most bookings the windows of one run_sync pass return in total
MaxFetched == 2
\* most webhook deliveries handled
MaxDeliveries == 1
\* most rows in one batch handed to a sink
MaxBatch == 2
\* last tick of the database clock
MaxClock == 2
\* most windows of one Excel sync
MaxWindows == 2

Min(a, b) == IF a <= b THEN a ELSE b

(***************************************************************************)
(* Upstream HTTP responses.  An optional JSON field is a set with at most  *)
(* one element ({} when the key is absent).  A booking is its              *)
(* bookingNumber and `val`, which stands for all its other fields.         *)
(***************************************************************************)
BookingA1 == [booking_number |-> "B-100", val |-> 1]
BookingA2 == [booking_number |-> "B-100", val |-> 2]
BookingB1 == [booking_number |-> "B-101", val |-> 1]
BookingNoNumber == [booking_number |-> "", val |-> 1]

Opt(S) == {{}} \cup {{x} : x \in S}
\* dict.get(key, default)
Get(field, default) == IF field = {} THEN default ELSE CHOOSE x \in field : TRUE

PageData ==
  { <<>>, <<BookingA1>>, <<BookingA1, BookingA1>>, <<BookingA1, BookingB1>>,
    <<BookingB1, BookingA2>> }
PageCounts == {1, 2}

\* what `data` holds when the body is empty or is not JSON: {}
EmptyBody ==
  [token |-> {}, currentPage |-> {}, totalPages |-> {}, data |-> <<>>, message |-> {}]

PageBodies ==
  [token : Opt({"", "tok"}), currentPage : Opt(PageCounts), totalPages : Opt(PageCounts),
   data : PageData, message : {{}}]

ErrorBody ==
  [token |-> {}, currentPage |-> {}, totalPages |-> {}, data |-> <<>>, message |-> {"err"}]

\* an error payload that also carries a "data" list
ErrorBodyWithData ==
  [token |-> {"tok"}, currentPage |-> {1}, totalPages |-> {2}, data |-> <<BookingA1>>,
   message |-> {"err"}]

\* resp.ok: the status is not a client or server error (400..599)
StatusOk(status_code) == ~(status_code >= 400 /\ status_code < 600)

\* the responses the upstream can send: the status line, whether the body parses
\* as JSON, and the body
WireResponses ==
  [status_code : {200}, json_ok : {TRUE}, body : PageBodies]
    \cup [status_code : {200}, json_ok : {TRUE},
          body : {[token |-> {}, currentPage |-> {1}, totalPages |-> {0}, data |-> <<>>,
                   message |-> {}]}]
    \cup [status_code : {200}, json_ok : {FALSE}, body : {EmptyBody}]
    \cup [status_code : {304}, json_ok : {TRUE}, body : {EmptyBody, ErrorBodyWithData}]
    \cup [status_code : {500}, json_ok : {TRUE}, body : {ErrorBody, ErrorBodyWithData}]
    \cup [status_code : {502}, json_ok : {FALSE}, body : {EmptyBody}]

HttpResponses ==
  { [ok |-> StatusOk(w.status_code), status_code |-> w.status_code, json_ok |-> w.json_ok,
     body |-> w.body] : w \in WireResponses }

(***************************************************************************)
(* Rows.  A mapped row is its booking number and `val`, which stands for   *)
(* all the other mapped columns (event_id .. raw_json) together.           *)
(***************************************************************************)
MappedRows == {BookingNoNumber, BookingA1, BookingA2, BookingB1}

\* lists of at most MaxBatch rows
Batches == UNION { [1..n -> MappedRows] : n \in 0..MaxBatch }

VARIABLES
  \* ---- window planners (fetch_all_bookings, fetch_bookings_by_date_range)
  planner,        \* the function that is running, "none" before a call
  planner_pc,     \* "idle", "loop", "done", "raised"
  range_start,    \* historical_start / start
  range_end,      \* future_end / end
  current_start,  \* the loop variable
  chunks,         \* the windows handed to the page fetcher so far
  fa_yielded,     \* the booking numbers fetch_all_bookings has yielded so far
  \* ---- BookeoClient.get_bookings (bookeo_client.py), one window's page walk
  gb_pc,          \* "idle", "request", "done", "raised"
  gb_page_token,  \* page_token
  gb_page_number, \* page_number
  gb_requests,    \* the pageNavigationToken / pageNumber params of each request sent
  gb_result,      \* what the last _request call gave: the parsed data, or the error raised
  gb_yielded,     \* the bookings yielded to the caller so far
  gb_served,      \* the HTTP responses the upstream has sent, in order
  \* ---- fetch_bookings (function_app/shared/bookeo_client.py), one window's page walk
  fb_pc,          \* "idle", "request", "done", "raised"
  fb_page_token,  \* page_token
  fb_page_num,    \* page_num
  fb_requests,    \* the pageNavigationToken / pageNumber params of each request sent
  fb_bookings,    \* bookings, the list that is returned
  fb_served,      \* the HTTP responses the upstream has sent, in order
  \* ---- the destination database
  schema,         \* which CREATE TABLE Bookings ran: "none", "booking_db", "sql_client"
  Bookings,       \* the committed rows of table Bookings, in insertion order
  clock,          \* the database clock (SYSDATETIMEOFFSET / GETUTCDATE)
  \* ---- the sinks, one call at a time
  sink_call,      \* the sink function that ran last, "none" before any
  sink_rows,      \* the rows (bookings) it was given
  sink_ret,       \* what it returned: a count, or True (1) / False (0)
  sink_raised,    \* whether it raised instead of returning
  \* ---- concurrent callers of the booking_db table, one connection each
  conn_pc,        \* per caller: "idle", "update", "insert", "commit", "done", "failed"
  conn_rows,      \* per caller: the rows it upserts (one for a webhook delivery)
  conn_i,         \* per caller: the index of the row in hand
  conn_own,       \* per caller: the rows its open transaction has written
  \* ---- scripts/load_bookeo_bookings.py: main and fetch_bookings_for_range
  ld_pc,          \* "idle", "fetch", "load", "done", "exit1", "crashed"
  ld_ranges,      \* the windows get_month_ranges yields
  ld_m,           \* the index of the window being fetched
  ld_page,        \* page
  ld_total_pages, \* total_pages
  ld_bookings,    \* all_bookings of fetch_bookings_for_range
  ld_all_bookings,\* all_bookings of main
  ld_requests,    \* the requests sent: the window's index and the pageNumber
  ld_errors,      \* the windows for which an error was printed to stderr
  \* ---- function_app/function_app.py: run_sync
  sync_pc,        \* "idle", "loop", "upsert", "done", "raised"
  sync_now,       \* now = datetime.utcnow() of fetch_bookings_by_date_range
  sync_end,       \* end
  sync_current,   \* current_start
  sync_windows,   \* the windows handed to fetch_bookings
  sync_all,       \* all_bookings
  sync_unique,    \* unique, the list handed to sync_bookings_to_sql
  sync_i,         \* the position of sync_bookings_to_sql in that list
  sync_count,     \* count
  lastSyncTime,   \* the destination's sync-state record ({} when absent); no
                  \* statement of the repository reads or writes one
  \* ---- verify_bookeo_signature (shared/webhook_auth.py, webhook/function_app.py)
  vf_args,        \* the arguments of the last call, and time.time() in ms
  vf_signed,      \* what the sender of that request signed, and with which key
  vf_shared,      \* outcome of shared.webhook_auth.verify_bookeo_signature
  vf_webhook,     \* outcome of webhook.function_app.verify_bookeo_signature
  \* ---- the two bookeo_webhook handlers
  wh_last,        \* the last delivery: handler, request, settings, HTTP status
  wh_count,       \* deliveries handled
  wh_settings,    \* the app settings of the deployment ({} before it is configured)
  sync_queue,     \* bookeo-sync-queue: the messages put by the Function App handler
  \* ---- shared/sql_client.py: sync_bookings_to_sql, booking by booking
  sq_pc,          \* "idle", "loop", "done", "raised"
  sq_bookings,    \* the `bookings` argument
  sq_i,           \* position of `for b in bookings`
  sq_ret,         \* the returned count
  \* ---- the mappers of a booking's price (parse_booking_for_db, _booking_to_row)
  mp_pc,          \* "idle", "done"
  mp_price,       \* booking["price"] of the booking mapped
  mp_currency,    \* the currency each mapper puts in its row
  \* ---- sync_bookeo_to_excel.main and excel_export.write_bookings_to_excel
  ex_pc,          \* "idle", "fetch", "returned"
  ex_dry_run,     \* args.dry_run
  ex_left,        \* windows fetch_all_bookings has still to fetch
  ex_bookings,    \* bookings, the list main() collects
  ex_error,       \* TRUE when BookeoAPIError was caught
  ex_exit,        \* main()'s return value, the exit code
  ex_file,        \* the data rows of the spreadsheet at the output path
  \* ---- get_month_ranges called on its own
  mr_pc,          \* "idle", "done"
  mr_args,        \* start_year, start_month, num_months
  mr_ranges       \* the (start, end) pairs it yields

plannerVars ==
  <<planner, planner_pc, range_start, range_end, current_start, chunks, fa_yielded>>
gbVars == <<gb_pc, gb_page_token, gb_page_number, gb_requests, gb_result, gb_yielded,
            gb_served>>

fbVars == <<fb_pc, fb_page_token, fb_page_num, fb_requests, fb_bookings, fb_served>>

dbVars == <<schema, Bookings, clock>>
sinkVars == <<sink_call, sink_rows, sink_ret, sink_raised>>

connVars == <<conn_pc, conn_rows, conn_i, conn_own>>

loaderVars == <<ld_pc, ld_ranges, ld_m, ld_page, ld_total_pages, ld_bookings,
                ld_all_bookings, ld_requests, ld_errors>>

syncVars == <<sync_pc, sync_now, sync_end, sync_current, sync_windows, sync_all,
              sync_unique, sync_i, sync_count, lastSyncTime>>

verifyVars == <<vf_args, vf_signed, vf_shared, vf_webhook>>

hookVars == <<wh_last, wh_count, wh_settings, sync_queue>>
sqlVars == <<sq_pc, sq_bookings, sq_i, sq_ret>>
mapVars == <<mp_pc, mp_price, mp_currency>>
excelVars == <<ex_pc, ex_dry_run, ex_left, ex_bookings, ex_error, ex_exit, ex_file>>
monthVars == <<mr_pc, mr_args, mr_ranges>>

vars == <<plannerVars, gbVars, fbVars, dbVars, sinkVars, connVars, loaderVars, syncVars,
          verifyVars, hookVars, sqlVars, mapVars, excelVars, monthVars>>

NotPlanner ==
  <<gbVars, fbVars, dbVars, sinkVars, connVars, loaderVars, syncVars, verifyVars,
    hookVars, sqlVars, mapVars, excelVars, monthVars>>
NotGb ==
  <<plannerVars, fbVars, dbVars, sinkVars, connVars, loaderVars, syncVars, verifyVars,
    hookVars, sqlVars, mapVars, excelVars, monthVars>>
NotFb ==
  <<plannerVars, gbVars, dbVars, sinkVars, connVars, loaderVars, syncVars, verifyVars,
    hookVars, sqlVars, mapVars, excelVars, monthVars>>
NotSink ==
  <<plannerVars, gbVars, fbVars, connVars, loaderVars, syncVars, verifyVars,
    hookVars, sqlVars, mapVars, excelVars, monthVars>>
NotConn ==
  <<plannerVars, gbVars, fbVars, sinkVars, loaderVars, syncVars, verifyVars,
    hookVars, sqlVars, mapVars, excelVars, monthVars>>
NotLoader ==
  <<plannerVars, gbVars, fbVars, sinkVars, connVars, syncVars, verifyVars,
    hookVars, sqlVars, mapVars, excelVars, monthVars>>
NotSync ==
  <<plannerVars, gbVars, fbVars, sinkVars, connVars, loaderVars, verifyVars,
    hookVars, sqlVars, mapVars, excelVars, monthVars>>
NotVerify ==
  <<plannerVars, gbVars, fbVars, dbVars, sinkVars, connVars, loaderVars, syncVars,
    hookVars, sqlVars, mapVars, excelVars, monthVars>>
NotHook ==
  <<plannerVars, gbVars, fbVars, sinkVars, connVars, loaderVars, syncVars, verifyVars,
    sqlVars, mapVars, excelVars, monthVars>>
NotQueue ==
  <<plannerVars, gbVars, fbVars, sinkVars, connVars, loaderVars, verifyVars,
    sqlVars, mapVars, excelVars, monthVars>>
NotDb ==
  <<plannerVars, gbVars, fbVars, sinkVars, connVars, loaderVars, syncVars, verifyVars,
    hookVars, sqlVars, mapVars, excelVars, monthVars>>
NotSql ==
  <<plannerVars, gbVars, fbVars, sinkVars, connVars, loaderVars, syncVars, verifyVars,
    hookVars, mapVars, excelVars, monthVars>>
NotMap ==
  <<plannerVars, gbVars, fbVars, dbVars, sinkVars, connVars, loaderVars, syncVars,
    verifyVars, hookVars, sqlVars, excelVars, monthVars>>
NotExcel ==
  <<plannerVars, gbVars, fbVars, dbVars, sinkVars, connVars, loaderVars, syncVars,
    verifyVars, hookVars, sqlVars, mapVars, monthVars>>
NotMonth ==
  <<plannerVars, gbVars, fbVars, dbVars, sinkVars, connVars, loaderVars, syncVars,
    verifyVars, hookVars, sqlVars, mapVars, excelVars>>

(***************************************************************************)
(* Window planners                                                         *)
(***************************************************************************)
InitPlanner ==
  /\ planner = "none"
  /\ planner_pc = "idle"
  /\ range_start = 0
  /\ range_end = 0
  /\ current_start = 0
  /\ chunks = <<>>
  /\ fa_yielded = <<>>

\* bookeo_client.py fetch_all_bookings: chunk_end = min(current_start + 31 days, future_end)
ChunkEnd_NoClamp(cur, future_end) == cur + MAX_DAYS_PER_CALL
ChunkEnd(cur, future_end) == Min(cur + MAX_DAYS_PER_CALL, future_end)

\* function_app/shared/bookeo_client.py: current_end = min(current_start + timedelta(days=31), end)
CurrentEnd_NoClamp(cur, end) == cur + 31
CurrentEnd(cur, end) == Min(cur + 31, end)

\* fetch_all_bookings(historical_start, future_end): current_start = historical_start
FetchAllBookingsCall(historical_start, future_end) ==
  /\ planner_pc = "idle"
  /\ planner' = "fetch_all_bookings"
  /\ range_start' = historical_start
  /\ range_end' = future_end
  /\ current_start' = historical_start
  /\ chunks' = <<>>
  /\ fa_yielded' = <<>>
  /\ planner_pc' = "loop"
  /\ UNCHANGED NotPlanner

\* fetch_bookings_by_date_range(days_back, days_forward): start = now - days_back,
\* end = now + days_forward, current_start = start
FetchByDateRangeCall(utcnow, days_back, days_forward) ==
  /\ planner_pc = "idle"
  /\ planner' = "fetch_bookings_by_date_range"
  /\ range_start' = utcnow - days_back
  /\ range_end' = utcnow + days_forward
  /\ current_start' = utcnow - days_back
  /\ chunks' = <<>>
  /\ planner_pc' = "loop"
  /\ UNCHANGED fa_yielded
  /\ UNCHANGED NotPlanner

\* the upstream's bookings and the day each starts
UpstreamBookings ==
  << [booking_number |-> "B-100", start |-> 5],
     [booking_number |-> "B-101", start |-> 31],
     [booking_number |-> "B-102", start |-> 33] >>

\* GET /bookings?startTime=s&endTime=e: the numbers of the bookings that start in
\* the range; whether a booking that starts exactly at endTime is included is
\* the upstream's choice
BookingsInRange(s, e, end_inclusive) ==
  LET InRange(b) == s <= b.start /\ (b.start < e \/ (end_inclusive /\ b.start = e))
      found == SelectSeq(UpstreamBookings, InRange)
  IN  [i \in 1..Len(found) |-> found[i].booking_number]

\* one iteration of `while current_start < future_end` whose get_bookings walk
\* succeeds: every booking of the window is yielded
FetchAllBookingsIter_LoopOnEqual(end_inclusive) ==
  /\ planner = "fetch_all_bookings" /\ planner_pc = "loop"
  /\ current_start <= range_end
  /\ LET chunk_end == ChunkEnd(current_start, range_end) IN
       /\ chunks' = Append(chunks, [s |-> current_start, e |-> chunk_end])
       /\ fa_yielded' = fa_yielded \o BookingsInRange(current_start, chunk_end, end_inclusive)
       /\ current_start' = chunk_end
  /\ UNCHANGED <<planner, planner_pc, range_start, range_end>>
  /\ UNCHANGED NotPlanner
FetchAllBookingsIter(end_inclusive) ==
  /\ planner = "fetch_all_bookings" /\ planner_pc = "loop"
  /\ current_start < range_end
  /\ LET chunk_end == ChunkEnd(current_start, range_end) IN
       /\ chunks' = Append(chunks, [s |-> current_start, e |-> chunk_end])
       /\ fa_yielded' = fa_yielded \o BookingsInRange(current_start, chunk_end, end_inclusive)
       /\ current_start' = chunk_end
  /\ UNCHANGED <<planner, planner_pc, range_start, range_end>>
  /\ UNCHANGED NotPlanner

\* one iteration of `while current_start < end` whose fetch_bookings call succeeds
FetchByDateRangeIter ==
  /\ planner = "fetch_bookings_by_date_range" /\ planner_pc = "loop"
  /\ current_start < range_end
  /\ LET current_end == CurrentEnd(current_start, range_end) IN
       /\ chunks' = Append(chunks, [s |-> current_start, e |-> current_end])
       /\ current_start' = current_end
  /\ UNCHANGED <<planner, planner_pc, range_start, range_end, fa_yielded>>
  /\ UNCHANGED NotPlanner

\* an iteration whose fetch raises (BookeoAPIError / HTTPError): the window was
\* requested, the exception leaves the loop
PlannerFetchRaises ==
  /\ planner_pc = "loop"
  /\ current_start < range_end
  /\ chunks' = Append(chunks,
        [s |-> current_start,
         e |-> IF planner = "fetch_all_bookings"
                 THEN ChunkEnd(current_start, range_end)
                 ELSE CurrentEnd(current_start, range_end)])
  /\ planner_pc' = "raised"
  /\ UNCHANGED <<planner, range_start, range_end, current_start, fa_yielded>>
  /\ UNCHANGED NotPlanner

\* the loop condition fails: the generator is exhausted / the list is returned
PlannerReturn ==
  /\ planner_pc = "loop"
  /\ ~(current_start < range_end)
  /\ planner_pc' = "done"
  /\ UNCHANGED <<planner, range_start, range_end, current_start, chunks, fa_yielded>>
  /\ UNCHANGED NotPlanner

NextPlanner ==
  \/ \E hs \in 0..MaxStart, fe \in 0..MaxDay : FetchAllBookingsCall(hs, fe)
  \/ \E now \in 0..MaxStart, db \in 0..MaxSpan, df \in (0 - 1)..MaxSpan :
        FetchByDateRangeCall(now, db, df)
  \/ \E end_inclusive \in BOOLEAN : FetchAllBookingsIter(end_inclusive)
  \/ FetchByDateRangeIter
  \/ PlannerFetchRaises
  \/ PlannerReturn


(***************************************************************************)
(* BookeoClient._request and BookeoClient.get_bookings                     *)
(***************************************************************************)
InitGb ==
  /\ gb_pc = "idle"
  /\ gb_page_token = {}
  /\ gb_page_number = 1
  /\ gb_requests = <<>>
  /\ gb_result = [raised |-> FALSE, status_code |-> 0, data |-> EmptyBody]
  /\ gb_yielded = <<>>
  /\ gb_served = <<>>

\* Python truth of an optional string: None and "" are false
Truthy(field) == \E t \in field : t /= ""

\* _request: data = resp.json() if resp.content else {}, {} when that throws;
\* BookeoAPIError(status_code, response=data) when not resp.ok, else data
Request_DropsStatus(resp) ==
  LET data == IF resp.json_ok THEN resp.body ELSE EmptyBody IN
  [raised |-> ~resp.ok, status_code |-> 0, data |-> data]
Request(resp) ==
  LET data == IF resp.json_ok THEN resp.body ELSE EmptyBody IN
  IF ~resp.ok
    THEN [raised |-> TRUE, status_code |-> resp.status_code, data |-> data]
    ELSE [raised |-> FALSE, status_code |-> resp.status_code, data |-> data]

\* `for b in bookings: yield b`
RECURSIVE YieldAll_Dedup(_, _)
YieldAll_Dedup(yielded, bookings) ==
  IF bookings = <<>> THEN yielded
  ELSE YieldAll_Dedup(
         IF \E i \in 1..Len(yielded) : yielded[i] = Head(bookings)
           THEN yielded ELSE Append(yielded, Head(bookings)),
         Tail(bookings))
RECURSIVE YieldAll(_, _)
YieldAll(yielded, bookings) ==
  IF bookings = <<>> THEN yielded
  ELSE YieldAll(Append(yielded, Head(bookings)), Tail(bookings))

\* `if not page_token or not bookings or current_page >= total_pages: break`
StopWalk_TokenOnly(data) == ~Truthy(data.token)
StopWalk_TotalDefaultsToOne(data) ==
  \/ ~Truthy(data.token)
  \/ data.data = <<>>
  \/ Get(data.currentPage, 0) >= Get(data.totalPages, 1)
StopWalk(data) ==
  \/ ~Truthy(data.token)
  \/ data.data = <<>>
  \/ Get(data.currentPage, 0) >= Get(data.totalPages, 0)

\* the params of the next request: the token and the page number are sent only
\* when page_token is set
GbParams ==
  IF Truthy(gb_page_token)
    THEN [pageNavigationToken |-> gb_page_token, pageNumber |-> {gb_page_number}]
    ELSE [pageNavigationToken |-> {}, pageNumber |-> {}]

\* get_bookings(start_time, end_time): page_token = None, page_number = 1
GetBookingsCall ==
  /\ gb_pc = "idle"
  /\ gb_pc' = "request"
  /\ gb_page_token' = {}
  /\ gb_page_number' = 1
  /\ UNCHANGED <<gb_requests, gb_result, gb_yielded, gb_served>>
  /\ UNCHANGED NotGb

\* one iteration of `while True`: the request, the yields, the break test
GetBookingsIter(resp) ==
  /\ gb_pc = "request"
  /\ Len(gb_requests) < MaxRequests
  /\ gb_requests' = Append(gb_requests, GbParams)
  /\ gb_served' = Append(gb_served, resp)
  /\ LET res == Request(resp) IN
       /\ gb_result' = res
       /\ IF res.raised
            THEN /\ gb_pc' = "raised"
                 /\ UNCHANGED <<gb_page_token, gb_page_number, gb_yielded>>
            ELSE /\ gb_yielded' = YieldAll(gb_yielded, res.data.data)
                 /\ gb_page_token' = res.data.token
                 /\ IF StopWalk(res.data)
                      THEN gb_pc' = "done" /\ UNCHANGED gb_page_number
                      ELSE gb_pc' = "request" /\ gb_page_number' = gb_page_number + 1
  /\ UNCHANGED NotGb

NextGb ==
  \/ GetBookingsCall
  \/ \E resp \in HttpResponses : GetBookingsIter(resp)

(***************************************************************************)
(* fetch_bookings of the Function App                                      *)
(***************************************************************************)
InitFb ==
  /\ fb_pc = "idle"
  /\ fb_page_token = {}
  /\ fb_page_num = 1
  /\ fb_requests = <<>>
  /\ fb_bookings = <<>>
  /\ fb_served = <<>>

\* params: pageNumber always, pageNavigationToken when page_token is set
FbParams ==
  [pageNavigationToken |-> IF Truthy(fb_page_token) THEN fb_page_token ELSE {},
   pageNumber |-> {fb_page_num}]

\* resp.raise_for_status() raises on a 4xx/5xx answer, resp.json() on a body
\* that is not JSON
FbRaises_StatusIgnored(resp) == ~resp.json_ok
FbRaises(resp) == ~resp.ok \/ ~resp.json_ok

\* fetch_bookings(start_time, end_time): bookings = [], page_token = None, page_num = 1
FetchBookingsCall ==
  /\ fb_pc = "idle"
  /\ fb_pc' = "request"
  /\ fb_bookings' = <<>>
  /\ fb_page_token' = {}
  /\ fb_page_num' = 1
  /\ UNCHANGED <<fb_requests, fb_served>>
  /\ UNCHANGED NotFb

\* one iteration of `while True`: the request, bookings.extend, `if not page_token: break`
FetchBookingsIter(resp) ==
  /\ fb_pc = "request"
  /\ Len(fb_requests) < MaxRequests
  /\ fb_requests' = Append(fb_requests, FbParams)
  /\ fb_served' = Append(fb_served, resp)
  /\ IF FbRaises(resp)
       THEN /\ fb_pc' = "raised"
            /\ UNCHANGED <<fb_page_token, fb_page_num, fb_bookings>>
       ELSE /\ fb_bookings' = fb_bookings \o resp.body.data
            /\ fb_page_token' = resp.body.token
            /\ IF ~Truthy(resp.body.token)
                 THEN fb_pc' = "done" /\ UNCHANGED fb_page_num
                 ELSE fb_pc' = "request" /\ fb_page_num' = fb_page_num + 1
  /\ UNCHANGED NotFb

NextFb ==
  \/ FetchBookingsCall
  \/ \E resp \in HttpResponses : FetchBookingsIter(resp)

(***************************************************************************)
(* The destination table and the SQL statements the sinks execute          *)
(***************************************************************************)
InitDb ==
  /\ schema = "none"
  /\ Bookings = <<>>
  /\ clock = 0

\* rows WHERE booking_number = bn (cursor.rowcount of the UPDATE)
KeyCount(table, bn) ==
  Cardinality({i \in DOMAIN table : table[i].booking_number = bn})

\* UPDATE Bookings SET <mapped columns>, updated_at = SYSDATETIMEOFFSET()
\* WHERE booking_number = ?
SqlUpdate_ResetsCreatedAt(table, row, now) ==
  [i \in DOMAIN table |->
     IF table[i].booking_number = row.booking_number
       THEN [table[i] EXCEPT !.val = row.val, !.created_at = now, !.updated_at = now]
       ELSE table[i]]
SqlUpdate(table, row, now) ==
  [i \in DOMAIN table |->
     IF table[i].booking_number = row.booking_number
       THEN [table[i] EXCEPT !.val = row.val, !.updated_at = now]
       ELSE table[i]]

\* booking_number NVARCHAR(50) PRIMARY KEY: an INSERT of a stored key is rejected
PkViolation_NoKey(table, bn) == FALSE
PkViolation(table, bn) == KeyCount(table, bn) > 0

\* INSERT INTO Bookings (booking_number, <mapped columns>): created_at and
\* updated_at take their DEFAULT SYSDATETIMEOFFSET()
SqlInsert(table, row, now) ==
  Append(table, [booking_number |-> row.booking_number, val |-> row.val,
                 created_at |-> now, updated_at |-> now])

\* cursor.execute(update_sql); if cursor.rowcount == 0: cursor.execute(insert_sql)
UpsertRow_InsertIfAbsent(table, row, now) ==
  IF KeyCount(table, row.booking_number) = 0
    THEN [table |-> SqlInsert(table, row, now), raised |-> FALSE]
    ELSE [table |-> table, raised |-> FALSE]
UpsertRow(table, row, now) ==
  IF KeyCount(table, row.booking_number) = 0
    THEN IF PkViolation(table, row.booking_number)
           THEN [table |-> table, raised |-> TRUE]
           ELSE [table |-> SqlInsert(table, row, now), raised |-> FALSE]
    ELSE [table |-> SqlUpdate(table, row, now), raised |-> FALSE]

\* the `for r in rows` loop of upsert_to_azure_sql on one connection
RECURSIVE UpsertEach(_, _, _)
UpsertEach(table, rows, now) ==
  IF rows = <<>> THEN [table |-> table, raised |-> FALSE]
  ELSE LET one == UpsertRow(table, Head(rows), now) IN
         IF one.raised THEN one ELSE UpsertEach(one.table, Tail(rows), now)

\* upsert_to_azure_sql(rows, conn): 0 for no rows; else the loop, conn.commit(),
\* the count; an exception leaves the transaction uncommitted
UpsertToAzureSql(table, rows, now) ==
  IF rows = <<>> THEN [table |-> table, ret |-> 0, raised |-> FALSE]
  ELSE LET all == UpsertEach(table, rows, now) IN
         IF all.raised THEN [table |-> table, ret |-> 0, raised |-> TRUE]
         ELSE [table |-> all.table, ret |-> Len(rows), raised |-> FALSE]

\* booking_db.upsert_booking(conn, row): False (0) for an empty booking number,
\* else update / insert, conn.commit(), True (1)
UpsertBooking_NoGuard(table, row, now) ==
  LET one == UpsertRow(table, row, now) IN
    IF one.raised THEN [table |-> table, ret |-> 0, raised |-> TRUE]
    ELSE [table |-> one.table, ret |-> 1, raised |-> FALSE]
UpsertBooking(table, row, now) ==
  IF row.booking_number = "" THEN [table |-> table, ret |-> 0, raised |-> FALSE]
  ELSE LET one == UpsertRow(table, row, now) IN
         IF one.raised THEN [table |-> table, ret |-> 0, raised |-> TRUE]
         ELSE [table |-> one.table, ret |-> 1, raised |-> FALSE]

\* sql_client.upsert_booking: MERGE Bookings ... ON BookingNumber: WHEN MATCHED
\* UPDATE SET <columns>, SyncedAt = GETUTCDATE(); WHEN NOT MATCHED INSERT
\* (SyncedAt DEFAULT GETUTCDATE()); nothing for an empty bookingNumber
MergeBooking(table, booking, now) ==
  IF booking.booking_number = "" THEN table
  ELSE IF \E i \in DOMAIN table : table[i].BookingNumber = booking.booking_number
    THEN [i \in DOMAIN table |->
            IF table[i].BookingNumber = booking.booking_number
              THEN [table[i] EXCEPT !.val = booking.val, !.SyncedAt = now]
              ELSE table[i]]
    ELSE Append(table, [BookingNumber |-> booking.booking_number, val |-> booking.val,
                        SyncedAt |-> now])

\* sync_bookings_to_sql(bookings): ensure_table, upsert_booking for each booking
\* (committed one by one), return len(bookings)
RECURSIVE MergeEach(_, _, _)
MergeEach(table, bookings, now) ==
  IF bookings = <<>> THEN table
  ELSE MergeEach(MergeBooking(table, Head(bookings), now), Tail(bookings), now)
SyncBookingsToSql(table, bookings, now) ==
  [table |-> MergeEach(table, bookings, now), ret |-> Len(bookings), raised |-> FALSE]

\* main(): rows = [r for r in rows if r["booking_number"]]
NonEmptyKey(row) == row.booking_number /= ""
FilterRows(rows) == SelectSeq(rows, NonEmptyKey)

(***************************************************************************)
(* The sinks, called one after another                                     *)
(***************************************************************************)
InitSink ==
  /\ sink_call = "none"
  /\ sink_rows = <<>>
  /\ sink_ret = 0
  /\ sink_raised = FALSE

\* time passes on the database server
Tick ==
  /\ clock < MaxClock
  /\ clock' = clock + 1
  /\ UNCHANGED <<schema, Bookings, sinkVars>>
  /\ UNCHANGED NotSink

\* load_bookeo_bookings.main, lines 262-265: drop the rows without a booking
\* number, upsert the rest; the script creates no table, and with no row left
\* upsert_to_azure_sql returns before its first statement
LoaderUpsert(all_rows) ==
  /\ schema = "booking_db" \/ FilterRows(all_rows) = <<>>
  /\ LET res == UpsertToAzureSql(Bookings, FilterRows(all_rows), clock) IN
       /\ Bookings' = res.table
       /\ sink_ret' = res.ret
       /\ sink_raised' = res.raised
  /\ sink_call' = "upsert_to_azure_sql"
  /\ sink_rows' = FilterRows(all_rows)
  /\ UNCHANGED <<schema, clock>>
  /\ UNCHANGED NotSink

\* webhook/function_app.py, lines 98-103: create_bookings_table_if_not_exists
\* (CREATE TABLE only if no Bookings table exists), then booking_db.upsert_booking,
\* which returns before its first statement for a row without a booking number
WebhookUpsert(row) ==
  /\ schema \in {"none", "booking_db"} \/ ~NonEmptyKey(row)
  /\ schema' = IF schema = "none" THEN "booking_db" ELSE schema
  /\ LET res == UpsertBooking(Bookings, row, clock) IN
       /\ Bookings' = res.table
       /\ sink_ret' = res.ret
       /\ sink_raised' = res.raised
  /\ sink_call' = "upsert_booking"
  /\ sink_rows' = <<row>>
  /\ UNCHANGED clock
  /\ UNCHANGED NotSink

\* run_sync -> sync_bookings_to_sql(bookings): ensure_table (CREATE TABLE only if
\* no Bookings table exists), then the MERGEs of the bookings that have a number
FunctionAppSync(bookings) ==
  /\ schema \in {"none", "sql_client"} \/ FilterRows(bookings) = <<>>
  /\ schema' = IF schema = "none" THEN "sql_client" ELSE schema
  /\ LET res == SyncBookingsToSql(Bookings, bookings, clock) IN
       /\ Bookings' = res.table
       /\ sink_ret' = res.ret
       /\ sink_raised' = res.raised
  /\ sink_call' = "sync_bookings_to_sql"
  /\ sink_rows' = bookings
  /\ UNCHANGED clock
  /\ UNCHANGED NotSink

\* a sink run against a database whose Bookings table is missing or has the
\* other schema: its first statement raises and nothing is written
SinkSchemaError(fn, rows) ==
  /\ FilterRows(rows) /= <<>>
  /\ \/ fn = "upsert_to_azure_sql" /\ schema /= "booking_db"
     \/ fn = "upsert_booking" /\ schema = "sql_client" /\ Len(rows) = 1
     \/ fn = "sync_bookings_to_sql" /\ schema = "booking_db"
  /\ sink_call' = fn
  /\ sink_rows' = IF fn = "upsert_to_azure_sql" THEN FilterRows(rows) ELSE rows
  /\ sink_ret' = 0
  /\ sink_raised' = TRUE
  /\ UNCHANGED dbVars
  /\ UNCHANGED NotSink

NextSink ==
  \/ Tick
  \/ \E all_rows \in Batches : LoaderUpsert(all_rows)
  \/ \E row \in MappedRows : WebhookUpsert(row)
  \/ \E bookings \in Batches : FunctionAppSync(bookings)
  \/ \E fn \in {"upsert_to_azure_sql", "upsert_booking", "sync_bookings_to_sql"} :
        \E rows \in Batches : SinkSchemaError(fn, rows)

(***************************************************************************)
(* Concurrent callers: two webhook deliveries (webhook/function_app.py ->  *)
(* booking_db.upsert_booking) and one bulk load (upsert_to_azure_sql),     *)
(* each on a connection of its own, one SQL statement per step.  A row an  *)
(* open transaction has written is locked until that transaction ends: a  *)
(* statement of another caller on the same booking number waits.           *)
(***************************************************************************)
Hooks == {"hook1", "hook2"}
Callers == Hooks \cup {"load"}

InitConn ==
  /\ conn_pc = [c \in Callers |-> "idle"]
  /\ conn_rows = [c \in Callers |-> <<>>]
  /\ conn_i = [c \in Callers |-> 1]
  /\ conn_own = [c \in Callers |-> <<>>]

OwnKeys(c) == {conn_own[c][i].booking_number : i \in DOMAIN conn_own[c]}

\* what caller c's statements see: the committed rows, with its own writes
Visible(c) ==
  SelectSeq(Bookings, LAMBDA r : r.booking_number \notin OwnKeys(c)) \o conn_own[c]

\* another caller's open transaction holds the row of this booking number
Blocked(c, bn) == \E c2 \in Callers \ {c} : bn \in OwnKeys(c2)

\* the rows of `view` that belong to c's transaction once it has written bn
Written(c, view, bn) ==
  SelectSeq(view, LAMBDA r : r.booking_number \in OwnKeys(c) \cup {bn})

CurrentRow(c) == conn_rows[c][conn_i[c]]

\* after the statements of one row: the loader goes on to its next row, a
\* webhook (and the loader after its last row) commits
AfterRow(c) ==
  IF conn_i[c] < Len(conn_rows[c])
    THEN /\ conn_pc' = [conn_pc EXCEPT ![c] = "update"]
         /\ conn_i' = [conn_i EXCEPT ![c] = conn_i[c] + 1]
    ELSE /\ conn_pc' = [conn_pc EXCEPT ![c] = "commit"]
         /\ UNCHANGED conn_i

\* bookeo_webhook, lines 98-102: get_connection, create the table if missing,
\* parse_booking_for_db; upsert_booking returns False for an empty number
HookBegin(c, row) ==
  /\ c \in Hooks /\ conn_pc[c] = "idle"
  /\ schema \in {"none", "booking_db"}
  /\ schema' = "booking_db"
  /\ conn_rows' = [conn_rows EXCEPT ![c] = <<row>>]
  /\ conn_pc' = [conn_pc EXCEPT ![c] = IF row.booking_number = "" THEN "done" ELSE "update"]
  /\ UNCHANGED <<Bookings, clock, conn_i, conn_own>>
  /\ UNCHANGED NotConn

\* main, lines 260-264, and upsert_to_azure_sql, lines 149-152
LoadBegin(all_rows) ==
  /\ conn_pc["load"] = "idle"
  /\ schema = "booking_db"
  /\ conn_rows' = [conn_rows EXCEPT !["load"] = FilterRows(all_rows)]
  /\ conn_pc' = [conn_pc EXCEPT !["load"] =
                   IF FilterRows(all_rows) = <<>> THEN "done" ELSE "update"]
  /\ UNCHANGED <<dbVars, conn_i, conn_own>>
  /\ UNCHANGED NotConn

\* cursor.execute(update_sql, params); `if cursor.rowcount == 0`
ConnUpdate(c) ==
  /\ conn_pc[c] = "update"
  /\ ~Blocked(c, CurrentRow(c).booking_number)
  /\ IF KeyCount(Visible(c), CurrentRow(c).booking_number) = 0
       THEN /\ conn_pc' = [conn_pc EXCEPT ![c] = "insert"]
            /\ UNCHANGED <<conn_i, conn_own>>
       ELSE /\ conn_own' = [conn_own EXCEPT ![c] =
                 Written(c, SqlUpdate(Visible(c), CurrentRow(c), clock),
                         CurrentRow(c).booking_number)]
            /\ AfterRow(c)
  /\ UNCHANGED <<dbVars, conn_rows>>
  /\ UNCHANGED NotConn

\* cursor.execute(insert_sql, ...): rejected by the primary key when the number
\* is stored by now; the exception ends the call and the transaction is rolled
\* back with the connection
ConnInsert(c) ==
  /\ conn_pc[c] = "insert"
  /\ ~Blocked(c, CurrentRow(c).booking_number)
  /\ IF PkViolation(Visible(c), CurrentRow(c).booking_number)
       THEN /\ conn_pc' = [conn_pc EXCEPT ![c] = "failed"]
            /\ conn_own' = [conn_own EXCEPT ![c] = <<>>]
            /\ UNCHANGED conn_i
       ELSE /\ conn_own' = [conn_own EXCEPT ![c] =
                 Written(c, SqlInsert(Visible(c), CurrentRow(c), clock),
                         CurrentRow(c).booking_number)]
            /\ AfterRow(c)
  /\ UNCHANGED <<dbVars, conn_rows>>
  /\ UNCHANGED NotConn

\* conn.commit()
ConnCommit(c) ==
  /\ conn_pc[c] = "commit"
  /\ Bookings' = Visible(c)
  /\ conn_own' = [conn_own EXCEPT ![c] = <<>>]
  /\ conn_pc' = [conn_pc EXCEPT ![c] = "done"]
  /\ UNCHANGED <<schema, clock, conn_rows, conn_i>>
  /\ UNCHANGED NotConn

NextConn ==
  \/ \E c \in Hooks, row \in MappedRows : HookBegin(c, row)
  \/ \E all_rows \in Batches : LoadBegin(all_rows)
  \/ \E c \in Callers : ConnUpdate(c)
  \/ \E c \in Callers : ConnInsert(c)
  \/ \E c \in Callers : ConnCommit(c)

(***************************************************************************)
(* The SQL bulk loader: scripts/load_bookeo_bookings.py                    *)
(***************************************************************************)
InitLoader ==
  /\ ld_pc = "idle"
  /\ ld_ranges = <<>>
  /\ ld_m = 1
  /\ ld_page = 1
  /\ ld_total_pages = 1
  /\ ld_bookings = <<>>
  /\ ld_all_bookings = <<>>
  /\ ld_requests = <<>>
  /\ ld_errors = <<>>

\* get_month_ranges(start_year, start_month, num_months): (first of the month,
\* first of the next month), December followed by January of the next year
GetMonthRanges_SameYear(year, month, num_months) ==
  [i \in 1..num_months |->
     [start |-> [year |-> year, month |-> ((month + i - 2) % 12) + 1, day |-> 1],
      end |-> [year |-> year, month |-> ((month + i - 1) % 12) + 1, day |-> 1]]]
RECURSIVE GetMonthRanges(_, _, _)
GetMonthRanges(year, month, num_months) ==
  IF num_months = 0 THEN <<>>
  ELSE << [start |-> [year |-> year, month |-> month, day |-> 1],
           end |-> IF month = 12
                     THEN [year |-> year + 1, month |-> 1, day |-> 1]
                     ELSE [year |-> year, month |-> month + 1, day |-> 1]] >>
       \o (IF month + 1 > 12
             THEN GetMonthRanges(year + 1, 1, num_months - 1)
             ELSE GetMonthRanges(year, month + 1, num_months - 1))

\* parse_booking_for_db: the booking number and the other mapped columns
ParseBookingForDb(booking) ==
  [booking_number |-> booking.booking_number, val |-> booking.val]
ParseAll(bookings) == [i \in DOMAIN bookings |-> ParseBookingForDb(bookings[i])]

\* booking_db.create_bookings_table_if_not_exists, run against the database
\* before the load
CreateBookingsTable ==
  /\ schema = "none"
  /\ schema' = "booking_db"
  /\ UNCHANGED <<Bookings, clock>>
  /\ UNCHANGED NotDb

\* main, lines 217-222: the first window's fetch_bookings_for_range call, or
\* straight to line 226 when --months is 0
LoaderStart(months) ==
  /\ ld_pc = "idle"
  /\ ld_ranges' = GetMonthRanges(2026, 1, months)
  /\ ld_pc' = IF months = 0 THEN "load" ELSE "fetch"
  /\ ld_m' = 1
  /\ ld_page' = 1
  /\ ld_total_pages' = 1
  /\ ld_bookings' = <<>>
  /\ ld_all_bookings' = <<>>
  /\ UNCHANGED <<ld_requests, ld_errors>>
  /\ UNCHANGED dbVars
  /\ UNCHANGED NotLoader

\* fetch_bookings_for_range returns `got`: main extends all_bookings and goes to
\* the next window, or to line 226 after the last one
LoaderWindowReturns(got) ==
  /\ ld_all_bookings' = ld_all_bookings \o got
  /\ ld_bookings' = <<>>
  /\ ld_page' = 1
  /\ ld_total_pages' = 1
  /\ IF ld_m < Len(ld_ranges)
       THEN ld_m' = ld_m + 1 /\ ld_pc' = "fetch"
       ELSE UNCHANGED ld_m /\ ld_pc' = "load"

\* one iteration of `while page <= total_pages` in fetch_bookings_for_range:
\* a RequestException (raise_for_status) or a JSONDecodeError is printed and
\* breaks the loop; `if page >= total_pages: break`
LoaderFetchPage_RetriesPage(resp) ==
  /\ ld_pc = "fetch"
  /\ ld_page <= ld_total_pages
  /\ ld_requests' = Append(ld_requests,
        [window |-> ld_m, pageNumber |-> ld_page, failed |-> ~resp.ok \/ ~resp.json_ok,
         totalPages |-> IF ~resp.ok \/ ~resp.json_ok THEN {} ELSE resp.body.totalPages])
  /\ IF ~resp.ok \/ ~resp.json_ok
       THEN /\ ld_errors' = Append(ld_errors, ld_m)
            /\ UNCHANGED <<ld_pc, ld_m, ld_page, ld_total_pages, ld_bookings,
                           ld_all_bookings>>
       ELSE /\ UNCHANGED ld_errors
            /\ IF ld_page >= Get(resp.body.totalPages, 1)
                 THEN LoaderWindowReturns(ld_bookings \o resp.body.data)
                 ELSE /\ ld_bookings' = ld_bookings \o resp.body.data
                      /\ ld_total_pages' = Get(resp.body.totalPages, 1)
                      /\ ld_page' = ld_page + 1
                      /\ UNCHANGED <<ld_pc, ld_m, ld_all_bookings>>
  /\ UNCHANGED ld_ranges
  /\ UNCHANGED dbVars
  /\ UNCHANGED NotLoader
LoaderFetchPage(resp) ==
  /\ ld_pc = "fetch"
  /\ ld_page <= ld_total_pages
  /\ ld_requests' = Append(ld_requests,
        [window |-> ld_m, pageNumber |-> ld_page, failed |-> ~resp.ok \/ ~resp.json_ok,
         totalPages |-> IF ~resp.ok \/ ~resp.json_ok THEN {} ELSE resp.body.totalPages])
  /\ IF ~resp.ok \/ ~resp.json_ok
       THEN /\ ld_errors' = Append(ld_errors, ld_m)
            /\ LoaderWindowReturns(ld_bookings)
       ELSE /\ UNCHANGED ld_errors
            /\ IF ld_page >= Get(resp.body.totalPages, 1)
                 THEN LoaderWindowReturns(ld_bookings \o resp.body.data)
                 ELSE /\ ld_bookings' = ld_bookings \o resp.body.data
                      /\ ld_total_pages' = Get(resp.body.totalPages, 1)
                      /\ ld_page' = ld_page + 1
                      /\ UNCHANGED <<ld_pc, ld_m, ld_all_bookings>>
  /\ UNCHANGED ld_ranges
  /\ UNCHANGED dbVars
  /\ UNCHANGED NotLoader

\* main, lines 226-266: --output and --fetch-only return before the database;
\* missing credentials exit with 1; else parse, drop the rows without a booking
\* number, upsert_to_azure_sql
LoaderLoad(mode) ==
  /\ ld_pc = "load"
  /\ CASE mode \in {"output", "fetch_only"} ->
            /\ ld_pc' = "done"
            /\ UNCHANGED dbVars
       [] mode = "no_credentials" ->
            /\ ld_pc' = "exit1"
            /\ UNCHANGED dbVars
       [] mode = "db" ->
            IF schema /= "booking_db"
              THEN /\ ld_pc' = "crashed"
                   /\ UNCHANGED dbVars
              ELSE LET res == UpsertToAzureSql(
                                Bookings, FilterRows(ParseAll(ld_all_bookings)), clock) IN
                     /\ Bookings' = res.table
                     /\ ld_pc' = IF res.raised THEN "crashed" ELSE "done"
                     /\ UNCHANGED <<schema, clock>>
  /\ UNCHANGED <<ld_ranges, ld_m, ld_page, ld_total_pages, ld_bookings, ld_all_bookings,
                 ld_requests, ld_errors>>
  /\ UNCHANGED NotLoader

NextLoader ==
  \/ CreateBookingsTable
  \/ \E months \in 0..MaxMonths : LoaderStart(months)
  \/ \E resp \in {r \in HttpResponses :
                     \/ r.status_code /= 200
                     \/ (r.body.token = {} /\ r.body.currentPage \subseteq {1}
                           /\ Len(r.body.data) <= 1)} :
        LoaderFetchPage(resp)
  \/ \E mode \in {"output", "fetch_only", "no_credentials", "db"} : LoaderLoad(mode)

(***************************************************************************)
(* The Function App's pass: run_sync                                       *)
(***************************************************************************)
\* run_sync: fetch_bookings_by_date_range(days_back=365, days_forward=365)
SYNC_DAYS_BACK == 365
SYNC_DAYS_FORWARD == 365

InitSync ==
  /\ sync_pc = "idle"
  /\ sync_now = 0
  /\ sync_end = 0
  /\ sync_current = 0
  /\ sync_windows = <<>>
  /\ sync_all = <<>>
  /\ sync_unique = <<>>
  /\ sync_i = 1
  /\ sync_count = 0
  /\ lastSyncTime = {}

\* "Deduplicate by bookingNumber": the first booking of each truthy number
RECURSIVE UniqueFrom(_, _)
UniqueFrom(bookings, seen) ==
  IF bookings = <<>> THEN <<>>
  ELSE LET b == Head(bookings) IN
         IF b.booking_number /= "" /\ b.booking_number \notin seen
           THEN <<b>> \o UniqueFrom(Tail(bookings), seen \cup {b.booking_number})
           ELSE UniqueFrom(Tail(bookings), seen)
Unique_NoDedup(bookings) == SelectSeq(bookings, NonEmptyKey)
Unique(bookings) == UniqueFrom(bookings, {})

\* time passes (datetime.utcnow() and the server's GETUTCDATE())
SyncTick ==
  /\ clock < MaxClock
  /\ clock' = clock + 1
  /\ UNCHANGED <<schema, Bookings, syncVars>>
  /\ UNCHANGED NotSync

\* run_sync enters fetch_bookings_by_date_range: now, start, end, current_start
RunSyncCall ==
  /\ sync_pc = "idle"
  /\ sync_now' = clock
  /\ sync_current' = clock - SYNC_DAYS_BACK
  /\ sync_end' = clock + SYNC_DAYS_FORWARD
  /\ sync_windows' = <<>>
  /\ sync_all' = <<>>
  /\ sync_pc' = "loop"
  /\ UNCHANGED <<sync_unique, sync_i, sync_count, lastSyncTime>>
  /\ UNCHANGED dbVars
  /\ UNCHANGED NotSync

\* what fetch_bookings returns for one window: a booking changed upstream between
\* two windows comes back with new field values
WindowData == PageData \cup {<<BookingA2>>, <<BookingNoNumber>>}

\* one iteration of `while current_start < end` whose fetch_bookings returns chunk
SyncFetchWindow_UpsertsWindow(chunk) ==
  /\ sync_pc = "loop"
  /\ sync_current < sync_end
  /\ Len(sync_all) + Len(chunk) <= MaxFetched
  /\ schema \in {"none", "sql_client"}
  /\ LET current_end == CurrentEnd(sync_current, sync_end) IN
       /\ sync_windows' = Append(sync_windows, [s |-> sync_current, e |-> current_end])
       /\ sync_all' = sync_all \o chunk
       /\ sync_current' = current_end
  /\ schema' = "sql_client"
  /\ Bookings' = MergeEach(Bookings, chunk, clock)
  /\ UNCHANGED <<sync_pc, sync_now, sync_end, sync_unique, sync_i, sync_count, lastSyncTime>>
  /\ UNCHANGED clock
  /\ UNCHANGED NotSync
SyncFetchWindow(chunk) ==
  /\ sync_pc = "loop"
  /\ sync_current < sync_end
  /\ Len(sync_all) + Len(chunk) <= MaxFetched
  /\ LET current_end == CurrentEnd(sync_current, sync_end) IN
       /\ sync_windows' = Append(sync_windows, [s |-> sync_current, e |-> current_end])
       /\ sync_all' = sync_all \o chunk
       /\ sync_current' = current_end
  /\ UNCHANGED <<sync_pc, sync_now, sync_end, sync_unique, sync_i, sync_count, lastSyncTime>>
  /\ UNCHANGED dbVars
  /\ UNCHANGED NotSync

\* an iteration whose fetch_bookings raises: run_sync logs the exception and
\* re-raises it
SyncFetchRaises ==
  /\ sync_pc = "loop"
  /\ sync_current < sync_end
  /\ sync_windows' = Append(sync_windows,
        [s |-> sync_current, e |-> CurrentEnd(sync_current, sync_end)])
  /\ sync_pc' = "raised"
  /\ UNCHANGED <<sync_now, sync_end, sync_current, sync_all, sync_unique, sync_i,
                 sync_count, lastSyncTime>>
  /\ UNCHANGED dbVars
  /\ UNCHANGED NotSync

\* the loop ends: the deduplicated list is returned and sync_bookings_to_sql
\* connects and runs ensure_table (CREATE TABLE only if no Bookings table exists)
SyncBeginUpsert ==
  /\ sync_pc = "loop"
  /\ ~(sync_current < sync_end)
  /\ sync_unique' = Unique(sync_all)
  /\ sync_i' = 1
  /\ schema' = IF schema = "none" THEN "sql_client" ELSE schema
  /\ sync_pc' = "upsert"
  /\ UNCHANGED <<sync_now, sync_end, sync_current, sync_windows, sync_all, sync_count,
                 lastSyncTime>>
  /\ UNCHANGED <<Bookings, clock>>
  /\ UNCHANGED NotSync

\* one iteration of `for b in bookings: upsert_booking(conn, b)`: the MERGE and
\* its commit; against the webhook's table the MERGE names unknown columns
SyncUpsertNext ==
  /\ sync_pc = "upsert"
  /\ sync_i <= Len(sync_unique)
  /\ IF schema = "sql_client" \/ sync_unique[sync_i].booking_number = ""
       THEN /\ Bookings' = MergeBooking(Bookings, sync_unique[sync_i], clock)
            /\ sync_i' = sync_i + 1
            /\ UNCHANGED sync_pc
       ELSE /\ sync_pc' = "raised"
            /\ UNCHANGED <<Bookings, sync_i>>
  /\ UNCHANGED <<sync_now, sync_end, sync_current, sync_windows, sync_all, sync_unique,
                 sync_count, lastSyncTime>>
  /\ UNCHANGED <<schema, clock>>
  /\ UNCHANGED NotSync

\* sync_bookings_to_sql returns len(bookings); run_sync logs the count and returns
SyncReturn ==
  /\ sync_pc = "upsert"
  /\ sync_i > Len(sync_unique)
  /\ sync_count' = Len(sync_unique)
  /\ sync_pc' = "done"
  /\ UNCHANGED <<sync_now, sync_end, sync_current, sync_windows, sync_all, sync_unique,
                 sync_i, lastSyncTime>>
  /\ UNCHANGED dbVars
  /\ UNCHANGED NotSync

NextSync ==
  \/ SyncTick
  \/ CreateBookingsTable
  \/ RunSyncCall
  \/ \E chunk \in WindowData : SyncFetchWindow(chunk)
  \/ SyncFetchRaises
  \/ SyncBeginUpsert
  \/ SyncUpsertNext
  \/ SyncReturn

(***************************************************************************)
(* Webhook signature verification.  A str or bytes value is the sequence   *)
(* of its character codes or bytes; the bytes used are ASCII or 0xFF,      *)
(* which no UTF-8 text contains.                                           *)
(***************************************************************************)
Abs(n) == IF n < 0 THEN 0 - n ELSE n

IsDigit(c) == c >= 48 /\ c <= 57
RECURSIVE LStrip(_)
LStrip(str) == IF str /= <<>> /\ Head(str) = 32 THEN LStrip(Tail(str)) ELSE str
RECURSIVE RStrip(_)
RStrip(str) ==
  IF str /= <<>> /\ str[Len(str)] = 32 THEN RStrip(SubSeq(str, 1, Len(str) - 1)) ELSE str
Unsigned(str) == IF str /= <<>> /\ Head(str) \in {43, 45} THEN Tail(str) ELSE str

\* int(str): surrounding spaces, an optional sign, decimal digits with single
\* underscores between them; anything else is a ValueError
IsIntLiteral(str) ==
  LET digits == Unsigned(RStrip(LStrip(str))) IN
    /\ digits /= <<>>
    /\ IsDigit(digits[1]) /\ IsDigit(digits[Len(digits)])
    /\ \A i \in DOMAIN digits :
         \/ IsDigit(digits[i])
         \/ digits[i] = 95 /\ digits[i - 1] /= 95
RECURSIVE DigitsValue(_, _)
DigitsValue(digits, acc) ==
  IF digits = <<>> THEN acc
  ELSE DigitsValue(Tail(digits),
                   IF Head(digits) = 95 THEN acc ELSE 10 * acc + (Head(digits) - 48))
IntValue(str) ==
  LET body == RStrip(LStrip(str)) IN
    IF body[1] = 45 THEN 0 - DigitsValue(Tail(body), 0)
    ELSE DigitsValue(Unsigned(body), 0)

\* bytes.decode("utf-8") succeeds
Utf8Ok(body) == \A i \in DOMAIN body : body[i] < 128

\* the value of a header as far as the verification reads it: empty, the hex
\* digest of a message under a key, some other ASCII text, or text that is not
\* ASCII
NoSignature == [kind |-> "empty", key |-> <<>>, msg |-> <<>>]
OtherSignature == [kind |-> "other", key |-> <<>>, msg |-> <<>>]
NonAsciiSignature == [kind |-> "nonascii", key |-> <<>>, msg |-> <<>>]

\* hmac.new(key, msg, hashlib.sha256).hexdigest(): equal digests for equal key
\* and message only
HexDigest(key, msg) == [kind |-> "hexdigest", key |-> key, msg |-> msg]

\* hmac.compare_digest(expected, signature_header): TypeError for a str that is
\* not ASCII
CompareDigest(expected, signature_header) ==
  IF signature_header.kind = "nonascii" THEN "TypeError"
  ELSE IF expected = signature_header THEN "True" ELSE "False"

\* timestamp + messageId + url + body
HashingMessage(timestamp_header, message_id_header, webhook_url, body) ==
  timestamp_header \o message_id_header \o webhook_url \o body

SharedVerify_NoEmptyCheck(body, timestamp_header, message_id_header, signature_header, webhook_url, secret_key, now_ms, tolerance_seconds) ==
  IF ~IsIntLiteral(timestamp_header) THEN "False"
  ELSE IF Abs(now_ms - IntValue(timestamp_header)) > tolerance_seconds * 1000 THEN "False"
  ELSE IF ~Utf8Ok(body) THEN "UnicodeDecodeError"
  ELSE CompareDigest(
         HexDigest(secret_key,
                   HashingMessage(timestamp_header, message_id_header, webhook_url, body)),
         signature_header)
SharedVerify_FreshnessGe(body, timestamp_header, message_id_header, signature_header, webhook_url, secret_key, now_ms, tolerance_seconds) ==
  IF timestamp_header = <<>> \/ message_id_header = <<>> \/ signature_header.kind = "empty"
    THEN "False"
  ELSE IF ~IsIntLiteral(timestamp_header) THEN "False"
  ELSE IF Abs(now_ms - IntValue(timestamp_header)) >= tolerance_seconds * 1000 THEN "False"
  ELSE IF ~Utf8Ok(body) THEN "UnicodeDecodeError"
  ELSE CompareDigest(
         HexDigest(secret_key,
                   HashingMessage(timestamp_header, message_id_header, webhook_url, body)),
         signature_header)
\* shared/webhook_auth.py: only int() and the freshness test are inside the try
SharedVerify(body, timestamp_header, message_id_header, signature_header, webhook_url, secret_key, now_ms, tolerance_seconds) ==
  IF timestamp_header = <<>> \/ message_id_header = <<>> \/ signature_header.kind = "empty"
    THEN "False"
  ELSE IF ~IsIntLiteral(timestamp_header) THEN "False"
  ELSE IF Abs(now_ms - IntValue(timestamp_header)) > tolerance_seconds * 1000 THEN "False"
  ELSE IF ~Utf8Ok(body) THEN "UnicodeDecodeError"
  ELSE CompareDigest(
         HexDigest(secret_key,
                   HashingMessage(timestamp_header, message_id_header, webhook_url, body)),
         signature_header)

\* webhook/function_app.py: all six arguments must be truthy; ValueError (int(),
\* decode) and TypeError (compare_digest) are caught
WebhookVerify(body, timestamp_header, message_id_header, signature_header, webhook_url, secret_key, now_ms) ==
  IF \/ body = <<>> \/ timestamp_header = <<>> \/ message_id_header = <<>>
     \/ signature_header.kind = "empty" \/ webhook_url = <<>> \/ secret_key = <<>>
    THEN "False"
  ELSE IF ~IsIntLiteral(timestamp_header) THEN "False"
  ELSE IF Abs(now_ms - IntValue(timestamp_header)) > 120000 THEN "False"
  ELSE IF ~Utf8Ok(body) THEN "False"
  ELSE LET res == CompareDigest(
                    HexDigest(secret_key,
                              HashingMessage(timestamp_header, message_id_header,
                                             webhook_url, body)),
                    signature_header) IN
         IF res = "TypeError" THEN "False" ELSE res

\* the inputs the calls are made with
Secret == <<115, 107>>
OtherSecret == <<115, 108>>
NowMs == {500000, 500001}
TimestampHeaders ==
  { <<>>, <<120>>, <<53, 48, 48, 48, 48, 48>>, <<53, 48, 48, 48, 48, 49>>,
    <<51, 56, 48, 48, 48, 48>>, <<51, 55, 57, 57, 57, 57>>,
    <<54, 50, 48, 48, 48, 48>>, <<54, 50, 48, 48, 48, 50>>,
    <<43, 53, 48, 48, 48, 48, 48>>, <<45, 49>> }
MessageIdHeaders == { <<>>, <<109>>, <<110>> }
WebhookUrls == { <<117>>, <<118>> }
Bodies == { <<>>, <<97>>, <<98>>, <<255>> }
\* what a sender signs: a notification has a body, and the body is UTF-8 text
SignedFields ==
  [timestamp : TimestampHeaders, message_id : MessageIdHeaders, url : WebhookUrls,
   body : Bodies \ {<<>>, <<255>>}, key : {Secret, OtherSecret}]
SignatureOf(signed) ==
  HexDigest(signed.key,
            HashingMessage(signed.timestamp, signed.message_id, signed.url, signed.body))
VerifyArgs ==
  [body : Bodies, timestamp : TimestampHeaders, message_id : MessageIdHeaders,
   url : WebhookUrls, now_ms : NowMs]

InitVerify ==
  /\ vf_args = [body |-> <<>>, timestamp |-> <<>>, message_id |-> <<>>,
                signature |-> NoSignature, url |-> <<>>, now_ms |-> 0]
  /\ vf_signed = {}
  /\ vf_shared = "none"
  /\ vf_webhook = "none"

\* both implementations called with the same arguments at the same time
VerifyCall(args, signature, signed) ==
  /\ vf_args' = [body |-> args.body, timestamp |-> args.timestamp,
                 message_id |-> args.message_id, signature |-> signature,
                 url |-> args.url, now_ms |-> args.now_ms]
  /\ vf_signed' = signed
  /\ vf_shared' = SharedVerify(args.body, args.timestamp, args.message_id, signature,
                               args.url, Secret, args.now_ms, 120)
  /\ vf_webhook' = WebhookVerify(args.body, args.timestamp, args.message_id, signature,
                                 args.url, Secret, args.now_ms)
  /\ UNCHANGED NotVerify

\* one call per behaviour: the function keeps no state between calls
NextVerify ==
  \/ /\ vf_shared = "none"
     /\ \E args \in VerifyArgs : \E signed \in SignedFields :
           VerifyCall(args, SignatureOf(signed), {signed})
  \/ /\ vf_shared = "none"
     /\ \E args \in VerifyArgs :
           \E signature \in {NoSignature, OtherSignature, NonAsciiSignature} :
             VerifyCall(args, signature, {})

(***************************************************************************)
(* The webhook handlers: function_app/function_app.py bookeo_webhook       *)
(* (queues a sync) and webhook/function_app.py bookeo_webhook (upserts the *)
(* booking).  A body is a short byte string that stands for a whole text.  *)
(***************************************************************************)
BodyItemA == <<97>>
BodyItemNoNumber == <<98>>
BodyNoItem == <<123, 125>>
BodyNotJson == <<60>>
BodyNotUtf8 == <<255>>
BodyJsonArray == <<91, 93>>
BodyItemString == <<115>>

\* json.loads(body) and payload.get("item"): whether the body is JSON, whether
\* the payload is an object (has .get), the item if it is a booking object, and
\* whether an item that is present is an object
JsonLoads(body) ==
  CASE body = BodyItemA ->
         [ok |-> TRUE, is_object |-> TRUE, item |-> {BookingA1}, item_is_object |-> TRUE]
    [] body = BodyItemNoNumber ->
         [ok |-> TRUE, is_object |-> TRUE, item |-> {BookingNoNumber}, item_is_object |-> TRUE]
    [] body = BodyItemString ->
         [ok |-> TRUE, is_object |-> TRUE, item |-> {"text"}, item_is_object |-> FALSE]
    [] body = BodyNoItem ->
         [ok |-> TRUE, is_object |-> TRUE, item |-> {}, item_is_object |-> FALSE]
    [] body = BodyJsonArray ->
         [ok |-> TRUE, is_object |-> FALSE, item |-> {}, item_is_object |-> FALSE]
    [] OTHER -> [ok |-> FALSE, is_object |-> FALSE, item |-> {}, item_is_object |-> FALSE]

\* str.rstrip("/")
RECURSIVE RStripSlash(_)
RStripSlash(url) ==
  IF url /= <<>> /\ url[Len(url)] = 47
    THEN RStripSlash(SubSeq(url, 1, Len(url) - 1)) ELSE url

\* req.url.split("?")[0]
RECURSIVE BeforeQuery(_)
BeforeQuery(url) ==
  IF url = <<>> \/ Head(url) = 63 THEN <<>> ELSE <<Head(url)>> \o BeforeQuery(Tail(url))

\* the deliveries: the request, and the app settings it meets
HookRequests ==
  [body : {<<>>, BodyItemA, BodyItemNoNumber, BodyNoItem, BodyNotJson, BodyNotUtf8,
           BodyJsonArray, BodyItemString},
   timestamp : {<<>>, <<53, 48, 48, 48, 48, 48>>, <<51, 55, 57, 57, 57, 57>>},
   message_id : {<<>>, <<109>>},
   url : {<<117>>, <<117, 63, 113>>},
   now_ms : {500000}]
HookSettings ==
  [BOOKEO_SECRET_KEY : {<<>>, Secret},
   BOOKEO_WEBHOOK_URL : {<<>>, <<117>>, <<117, 47>>}]
\* the signature header of a request: none, text that is no digest, or what a
\* sender holding `key` computed over the request as sent or over another body
HookSignatures(req) ==
  {NoSignature, OtherSignature, NonAsciiSignature}
    \cup { HexDigest(key, HashingMessage(req.timestamp, req.message_id, <<117>>, body)) :
             key \in {Secret, OtherSecret}, body \in {req.body, BodyItemA} }

InitHook ==
  /\ wh_last = [handler |-> "none"]
  /\ wh_count = 0
  /\ wh_settings = {}
  /\ sync_queue = <<>>

\* function_app/function_app.py bookeo_webhook: the settings and the signature
\* are looked at only `if secret_key and webhook_url and signature`; an exception
\* of verify_bookeo_signature is not caught (the host answers 500)
FunctionAppWebhookUrl(req, settings) ==
  IF RStripSlash(settings.BOOKEO_WEBHOOK_URL) = <<>> /\ req.url /= <<>>
    THEN BeforeQuery(req.url)
    ELSE RStripSlash(settings.BOOKEO_WEBHOOK_URL)
FunctionAppWebhook(req, signature, settings) ==
  LET webhook_url == FunctionAppWebhookUrl(req, settings)
      verified == SharedVerify(req.body, req.timestamp, req.message_id, signature,
                               webhook_url, settings.BOOKEO_SECRET_KEY, req.now_ms, 120)
  IN
  IF req.body = <<>> THEN [status |-> 400, queued |-> FALSE, verified |-> "skipped"]
  ELSE IF /\ settings.BOOKEO_SECRET_KEY /= <<>> /\ webhook_url /= <<>>
          /\ signature.kind /= "empty"
    THEN CASE verified = "True" -> [status |-> 200, queued |-> TRUE, verified |-> verified]
           [] verified = "False" -> [status |-> 403, queued |-> FALSE, verified |-> verified]
           [] OTHER -> [status |-> 500, queued |-> FALSE, verified |-> verified]
    ELSE [status |-> 200, queued |-> TRUE, verified |-> "skipped"]

\* the app settings are set when the app is deployed
Configure(settings) ==
  /\ wh_settings = {}
  /\ wh_settings' = {settings}
  /\ UNCHANGED <<wh_last, wh_count, sync_queue>>
  /\ UNCHANGED dbVars
  /\ UNCHANGED NotHook

FunctionAppDeliver(req, signature, settings) ==
  /\ wh_count < MaxDeliveries
  /\ settings \in wh_settings
  /\ LET res == FunctionAppWebhook(req, signature, settings) IN
       /\ wh_last' = [handler |-> "function_app", req |-> req, signature |-> signature,
                      settings |-> settings, status |-> res.status,
                      verified |-> res.verified, accepted |-> res.queued,
                      connected |-> FALSE, store_failed |-> FALSE]
       /\ sync_queue' = IF res.queued THEN Append(sync_queue, "sync") ELSE sync_queue
  /\ wh_count' = wh_count + 1
  /\ UNCHANGED wh_settings
  /\ UNCHANGED dbVars
  /\ UNCHANGED NotHook

\* webhook/function_app.py bookeo_webhook: 500 without the settings, 401 when the
\* verification fails, 400 for a body that is not JSON or has no item (a payload
\* that is not an object has no .get: the exception is not caught and the host
\* answers 500), else get_connection, create_bookings_table_if_not_exists,
\* parse_booking_for_db and upsert_booking, 500 when any of them raises
WebhookDeliver(req, signature, settings) ==
  /\ wh_count < MaxDeliveries
  /\ settings \in wh_settings
  /\ LET verified == WebhookVerify(req.body, req.timestamp, req.message_id, signature,
                                   settings.BOOKEO_WEBHOOK_URL, settings.BOOKEO_SECRET_KEY,
                                   req.now_ms)
         payload == JsonLoads(req.body)
         row == ParseBookingForDb(CHOOSE item \in payload.item : TRUE)
         res == UpsertBooking(Bookings, row, clock)
         last == [handler |-> "webhook", req |-> req, signature |-> signature,
                  settings |-> settings, status |-> 0, verified |-> "skipped",
                  accepted |-> FALSE, connected |-> FALSE, store_failed |-> FALSE]
     IN
     IF settings.BOOKEO_SECRET_KEY = <<>> \/ settings.BOOKEO_WEBHOOK_URL = <<>>
       THEN /\ wh_last' = [last EXCEPT !.status = 500]
            /\ UNCHANGED dbVars
     ELSE IF verified /= "True"
       THEN /\ wh_last' = [last EXCEPT !.status = 401, !.verified = verified]
            /\ UNCHANGED dbVars
     ELSE IF ~payload.ok
       THEN /\ wh_last' = [last EXCEPT !.status = 400, !.verified = verified]
            /\ UNCHANGED dbVars
     ELSE IF ~payload.is_object
       THEN /\ wh_last' = [last EXCEPT !.status = 500, !.verified = verified]
            /\ UNCHANGED dbVars
     ELSE IF payload.item = {}
       THEN /\ wh_last' = [last EXCEPT !.status = 400, !.verified = verified]
            /\ UNCHANGED dbVars
     ELSE IF ~payload.item_is_object
       THEN /\ schema' = IF schema = "none" THEN "booking_db" ELSE schema
            /\ wh_last' = [last EXCEPT !.status = 500, !.verified = verified,
                                       !.connected = TRUE]
            /\ UNCHANGED <<Bookings, clock>>
     ELSE IF schema = "sql_client" /\ NonEmptyKey(row)
       THEN /\ wh_last' = [last EXCEPT !.status = 500, !.verified = verified,
                                       !.connected = TRUE, !.store_failed = TRUE]
            /\ UNCHANGED dbVars
     ELSE /\ schema' = IF schema = "none" THEN "booking_db" ELSE schema
          /\ Bookings' = res.table
          /\ wh_last' = [last EXCEPT !.status = IF res.raised THEN 500 ELSE 200,
                                     !.verified = verified, !.accepted = ~res.raised,
                                     !.connected = TRUE, !.store_failed = res.raised]
          /\ UNCHANGED clock
  /\ wh_count' = wh_count + 1
  /\ UNCHANGED <<wh_settings, sync_queue>>
  /\ UNCHANGED NotHook

NextHook ==
  \/ \E settings \in HookSettings : Configure(settings)
  \/ \E settings \in wh_settings, req \in HookRequests :
       \E signature \in HookSignatures(req) : FunctionAppDeliver(req, signature, settings)
  \/ \E settings \in wh_settings, req \in HookRequests :
       \E signature \in HookSignatures(req) : WebhookDeliver(req, signature, settings)

\* function_app/function_app.py process_sync_queue: the queue trigger hands the
\* oldest message of bookeo-sync-queue to the function, which logs it and calls
\* run_sync; run_sync enters fetch_bookings_by_date_range (now, start, end,
\* current_start).  One pass runs at a time.
ProcessSyncQueue_DropsMessage ==
  /\ sync_queue /= <<>>
  /\ sync_pc \in {"idle", "done", "raised"}
  /\ sync_queue' = Tail(sync_queue)
  /\ UNCHANGED syncVars
  /\ UNCHANGED <<wh_last, wh_count, wh_settings>>
  /\ UNCHANGED dbVars
  /\ UNCHANGED NotQueue
ProcessSyncQueue ==
  /\ sync_queue /= <<>>
  /\ sync_pc \in {"idle", "done", "raised"}
  /\ sync_queue' = Tail(sync_queue)
  /\ sync_now' = clock
  /\ sync_current' = clock - SYNC_DAYS_BACK
  /\ sync_end' = clock + SYNC_DAYS_FORWARD
  /\ sync_windows' = <<>>
  /\ sync_all' = <<>>
  /\ sync_pc' = "loop"
  /\ UNCHANGED <<sync_unique, sync_i, sync_count, lastSyncTime>>
  /\ UNCHANGED <<wh_last, wh_count, wh_settings>>
  /\ UNCHANGED dbVars
  /\ UNCHANGED NotQueue

\* the queueing Function App: deliveries to bookeo_webhook, the queue trigger and
\* the steps of the run_sync pass it starts
NextQueue ==
  \/ \E settings \in HookSettings : Configure(settings)
  \/ \E settings \in wh_settings :
       \E req \in {r \in HookRequests : /\ r.body \in {<<>>, BodyItemA}
                                       /\ r.message_id /= <<>>
                                       /\ r.url = <<117>>} :
         \E signature \in HookSignatures(req) : FunctionAppDeliver(req, signature, settings)
  \/ ProcessSyncQueue
  \/ \E chunk \in {<<>>, <<BookingA1>>} : SyncFetchWindow(chunk)
  \/ SyncFetchRaises
  \/ SyncBeginUpsert
  \/ SyncUpsertNext
  \/ SyncReturn

(***************************************************************************)
(* Specifications                                                          *)
(***************************************************************************)
(***************************************************************************)
(* shared/sql_client.py: parse_datetime, _booking_values, upsert_booking   *)
(* and sync_bookings_to_sql.  A booking here carries its startTime, a JSON *)
(* value: absent (None), a string (its character codes) or a number.       *)
(***************************************************************************)
\* the values of startTime: absent, "", "2016-12-19T16:39:00-08:00" (the example
\* of the code's comment), "2016-12-19T16:39:00Z", "not-a-date",
\* "2016-12-19T16:39:00 PST", "2016-13-19T16:39:00Z" (month 13), the number 1
Timestamps ==
  { [type |-> "none", v |-> <<>>], [type |-> "str", v |-> <<>>],
    [type |-> "str",
     v |-> <<50, 48, 49, 54, 45, 49, 50, 45, 49, 57, 84, 49, 54, 58, 51, 57, 58, 48, 48, 45, 48, 56, 58, 48, 48>>],
    [type |-> "str",
     v |-> <<50, 48, 49, 54, 45, 49, 50, 45, 49, 57, 84, 49, 54, 58, 51, 57, 58, 48, 48, 90>>],
    [type |-> "str", v |-> <<110, 111, 116, 45, 97, 45, 100, 97, 116, 101>>],
    [type |-> "str",
     v |-> <<50, 48, 49, 54, 45, 49, 50, 45, 49, 57, 84, 49, 54, 58, 51, 57, 58, 48, 48, 32, 80, 83, 84>>],
    [type |-> "str",
     v |-> <<50, 48, 49, 54, 45, 49, 51, 45, 49, 57, 84, 49, 54, 58, 51, 57, 58, 48, 48, 90>>],
    [type |-> "int", v |-> <<49>>] }
SqlBookings == [booking_number : {"", "B-100", "B-101"}, val : {1}, startTime : Timestamps]
SqlBatches == UNION { [1..n -> SqlBookings] : n \in 0..MaxBatch }

\* val.replace("Z", "+00:00")
RECURSIVE ReplaceZ(_)
ReplaceZ(str) ==
  IF str = <<>> THEN <<>>
  ELSE (IF Head(str) = 90 THEN <<43, 48, 48, 58, 48, 48>> ELSE <<Head(str)>>)
         \o ReplaceZ(Tail(str))

\* the number written by the n digits of str from position i, -1 if they are
\* not all digits
Field(str, i, n) ==
  IF \A k \in i..(i + n - 1) : IsDigit(str[k])
    THEN DigitsValue(SubSeq(str, i, i + n - 1), 0) ELSE 0 - 1
DaysInMonth(y, m) ==
  IF m = 2 THEN (IF (y % 4 = 0 /\ y % 100 /= 0) \/ y % 400 = 0 THEN 29 ELSE 28)
  ELSE IF m \in {4, 6, 9, 11} THEN 30 ELSE 31
\* YYYY-MM-DD at the head of str
DateOk(str) ==
  /\ Len(str) >= 10
  /\ str[5] = 45 /\ str[8] = 45
  /\ Field(str, 1, 4) >= 1
  /\ Field(str, 6, 2) \in 1..12
  /\ Field(str, 9, 2) >= 1
  /\ Field(str, 9, 2) <= DaysInMonth(Field(str, 1, 4), Field(str, 6, 2))
\* HH:MM:SS from position i
TimeOk(str, i) ==
  /\ Len(str) >= i + 7
  /\ str[i + 2] = 58 /\ str[i + 5] = 58
  /\ Field(str, i, 2) \in 0..23
  /\ Field(str, i + 3, 2) \in 0..59
  /\ Field(str, i + 6, 2) \in 0..59
\* +HH:MM or -HH:MM from position i
OffsetOk(str, i) ==
  /\ Len(str) = i + 5
  /\ str[i] \in {43, 45}
  /\ str[i + 3] = 58
  /\ Field(str, i + 1, 2) \in 0..23
  /\ Field(str, i + 4, 2) \in 0..59
\* datetime.fromisoformat succeeds: a date, a date and a time after any one
\* separator character, or these and a UTC offset (the forms that occur among
\* Timestamps; every other string there raises ValueError)
FromIsoformat(str) ==
  \/ Len(str) = 10 /\ DateOk(str)
  \/ Len(str) = 19 /\ DateOk(str) /\ TimeOk(str, 12)
  \/ Len(str) = 25 /\ DateOk(str) /\ TimeOk(str, 12) /\ OffsetOk(str, 20)
\* dt.strftime("%Y-%m-%d %H:%M:%S"): the wall-clock fields, the offset dropped
Strftime(str) ==
  SubSeq(str, 1, 10) \o <<32>>
    \o (IF Len(str) = 10 THEN <<48, 48, 58, 48, 48, 58, 48, 48>> ELSE SubSeq(str, 12, 19))

\* parse_datetime(val): None for a falsy value; the formatted time; val[:19]
\* after ValueError; a number has no .replace and AttributeError is not caught
ParseDatetime(val) ==
  IF val.type = "none" \/ val.v = <<>> THEN [raised |-> FALSE, value |-> {}]
  ELSE IF val.type /= "str" THEN [raised |-> TRUE, value |-> {}]
  ELSE IF FromIsoformat(ReplaceZ(val.v))
    THEN [raised |-> FALSE, value |-> {Strftime(ReplaceZ(val.v))}]
    ELSE [raised |-> FALSE, value |-> {SubSeq(val.v, 1, Min(19, Len(val.v)))}]

\* _booking_values(booking): the number, the other columns, the parsed times
BookingValues(booking) ==
  LET start == ParseDatetime(booking.startTime) IN
    [raised |-> start.raised, BookingNumber |-> booking.booking_number,
     val |-> booking.val, StartTime |-> start.value]

\* StartTime DATETIME2: NULL, or a string the server converts to a date and time
\* ('YYYY-MM-DD', 'YYYY-MM-DD hh:mm:ss', 'YYYY-MM-DDThh:mm:ss'); any other string
\* fails the statement with a conversion error
Datetime2Ok(value) ==
  \A str \in value :
    \/ Len(str) = 10 /\ DateOk(str)
    \/ Len(str) = 19 /\ DateOk(str) /\ str[11] \in {32, 84} /\ TimeOk(str, 12)

\* the MERGE of upsert_booking applied to the values of one booking
MergeValues(table, vals, now) ==
  IF \E i \in DOMAIN table : table[i].BookingNumber = vals.BookingNumber
    THEN [i \in DOMAIN table |->
            IF table[i].BookingNumber = vals.BookingNumber
              THEN [table[i] EXCEPT !.val = vals.val, !.StartTime = vals.StartTime,
                                    !.SyncedAt = now]
              ELSE table[i]]
    ELSE Append(table, [BookingNumber |-> vals.BookingNumber, val |-> vals.val,
                        StartTime |-> vals.StartTime, SyncedAt |-> now])

InitSql ==
  /\ sq_pc = "idle"
  /\ sq_bookings = <<>>
  /\ sq_i = 1
  /\ sq_ret = 0

\* sync_bookings_to_sql(bookings): connect, ensure_table and its commit
SqlSyncCall(bookings) ==
  /\ sq_pc = "idle"
  /\ schema \in {"none", "sql_client"}
  /\ schema' = "sql_client"
  /\ sq_bookings' = bookings
  /\ sq_i' = 1
  /\ sq_pc' = "loop"
  /\ UNCHANGED <<sq_ret, Bookings, clock>>
  /\ UNCHANGED NotSql

\* one iteration of `for b in bookings: upsert_booking(conn, b)`: return for a
\* booking without a number; else _booking_values, the MERGE and conn.commit();
\* an exception leaves the loop and the function
SqlUpsertNext ==
  /\ sq_pc = "loop"
  /\ sq_i <= Len(sq_bookings)
  /\ LET b == sq_bookings[sq_i] IN
       IF b.booking_number = ""
         THEN /\ sq_i' = sq_i + 1
              /\ UNCHANGED <<sq_pc, Bookings>>
         ELSE LET vals == BookingValues(b) IN
                IF vals.raised \/ ~Datetime2Ok(vals.StartTime)
                  THEN /\ sq_pc' = "raised"
                       /\ UNCHANGED <<sq_i, Bookings>>
                  ELSE /\ Bookings' = MergeValues(Bookings, vals, clock)
                       /\ sq_i' = sq_i + 1
                       /\ UNCHANGED sq_pc
  /\ UNCHANGED <<sq_bookings, sq_ret, schema, clock>>
  /\ UNCHANGED NotSql

\* return len(bookings)
SqlSyncReturn ==
  /\ sq_pc = "loop"
  /\ sq_i > Len(sq_bookings)
  /\ sq_ret' = Len(sq_bookings)
  /\ sq_pc' = "done"
  /\ UNCHANGED <<sq_bookings, sq_i>>
  /\ UNCHANGED dbVars
  /\ UNCHANGED NotSql

NextSql ==
  \/ \E bookings \in SqlBatches : SqlSyncCall(bookings)
  \/ SqlUpsertNext
  \/ SqlSyncReturn

(***************************************************************************)
(* The price of a booking and the currency the mappers take from it.  A    *)
(* key of a JSON object is {} when absent and {value} when present.        *)
(***************************************************************************)
Money == [amount : Opt({10}), currency : Opt({"USD", "EUR"})]
Prices == [totalGross : Opt(Money), totalNet : Opt(Money), totalPaid : Opt(Money)]

\* sub.get("currency") of price.get(key, {}): None ({}) when the sub-object or
\* its currency is absent
SubCurrency(sub) == IF sub = {} THEN {} ELSE Get(sub, {}).currency
\* webhook/booking_db.py: currency = price.get("totalGross", {}).get("currency")
DbCurrency(price) == SubCurrency(price.totalGross)
\* scripts/load_bookeo_bookings.py: the same expression
LoaderCurrency(price) == SubCurrency(price.totalGross)
\* `price.get(key) or {}`: an absent or empty sub-object counts as {}
OrEmpty(sub) ==
  IF sub = {} \/ (Get(sub, {}).amount = {} /\ Get(sub, {}).currency = {}) THEN {} ELSE sub
\* excel_export._booking_to_row:
\* (total_gross or total_net or total_paid).get("currency", "")
BookingToRowCurrency(price) ==
  LET total_gross == OrEmpty(price.totalGross)
      total_net == OrEmpty(price.totalNet)
      total_paid == OrEmpty(price.totalPaid)
      first == IF total_gross /= {} THEN total_gross
               ELSE IF total_net /= {} THEN total_net ELSE total_paid
  IN  Get(SubCurrency(first), "")

InitMap ==
  /\ mp_pc = "idle"
  /\ mp_price = [totalGross |-> {}, totalNet |-> {}, totalPaid |-> {}]
  /\ mp_currency = [booking_db |-> {}, loader |-> {}, excel |-> ""]

\* one booking with this price goes through the three mappers
MapBooking(price) ==
  /\ mp_pc = "idle"
  /\ mp_price' = price
  /\ mp_currency' = [booking_db |-> DbCurrency(price), loader |-> LoaderCurrency(price),
                     excel |-> BookingToRowCurrency(price)]
  /\ mp_pc' = "done"
  /\ UNCHANGED NotMap

NextMap == \E price \in Prices : MapBooking(price)

(***************************************************************************)
(* sync_bookeo_to_excel.main and excel_export.write_bookings_to_excel.     *)
(* The spreadsheet is the sequence of its data rows; <<>> also stands for  *)
(* a file that does not exist yet.                                         *)
(***************************************************************************)
\* key_to_row[bn] = row: a dict keeps the position of a key's first insertion
\* and the value of its last
RECURSIVE KeyToRow(_, _)
KeyToRow(bookings, rows) ==
  IF bookings = <<>> THEN rows
  ELSE LET row == Head(bookings)
           at == {i \in 1..Len(rows) : rows[i].booking_number = row.booking_number}
       IN  KeyToRow(Tail(bookings),
                    IF at = {} THEN Append(rows, row)
                    ELSE [i \in 1..Len(rows) |-> IF i \in at THEN row ELSE rows[i]])
\* write_bookings_to_excel(bookings, output_path): the rows written under the headers
WriteBookingsToExcel_FirstWins(bookings) == Unique(bookings)
WriteBookingsToExcel(bookings) == KeyToRow(bookings, <<>>)

InitExcel ==
  /\ ex_pc = "idle"
  /\ ex_dry_run = FALSE
  /\ ex_left = 0
  /\ ex_bookings = <<>>
  /\ ex_error = FALSE
  /\ ex_exit = 0
  /\ ex_file = <<>>

\* main() up to the fetch loop: without api_key or secret_key it returns 1; else
\* the range (windows of it are left to fetch) and bookings = []
ExcelMain(has_keys, dry_run, windows) ==
  /\ ex_pc \in {"idle", "returned"}
  /\ ex_dry_run' = dry_run
  /\ ex_bookings' = <<>>
  /\ ex_error' = FALSE
  /\ IF has_keys
       THEN ex_pc' = "fetch" /\ ex_left' = windows /\ ex_exit' = 0
       ELSE ex_pc' = "returned" /\ ex_left' = 0 /\ ex_exit' = 1
  /\ UNCHANGED ex_file
  /\ UNCHANGED NotExcel

\* fetch_all_bookings yields the bookings of one more window: bookings.append(b)
ExcelFetchWindow(chunk) ==
  /\ ex_pc = "fetch"
  /\ ex_left > 0
  /\ ex_bookings' = ex_bookings \o chunk
  /\ ex_left' = ex_left - 1
  /\ UNCHANGED <<ex_pc, ex_dry_run, ex_error, ex_exit, ex_file>>
  /\ UNCHANGED NotExcel

\* a window's request raises BookeoAPIError: it is logged and main() returns 1
ExcelFetchRaises_WritesFetched ==
  /\ ex_pc = "fetch"
  /\ ex_left > 0
  /\ ex_error' = TRUE
  /\ ex_exit' = 1
  /\ ex_pc' = "returned"
  /\ ex_file' = WriteBookingsToExcel(ex_bookings)
  /\ UNCHANGED <<ex_dry_run, ex_left, ex_bookings>>
  /\ UNCHANGED NotExcel
ExcelFetchRaises ==
  /\ ex_pc = "fetch"
  /\ ex_left > 0
  /\ ex_error' = TRUE
  /\ ex_exit' = 1
  /\ ex_pc' = "returned"
  /\ UNCHANGED <<ex_dry_run, ex_left, ex_bookings, ex_file>>
  /\ UNCHANGED NotExcel

\* the generator is exhausted: with --dry-run return 0; else
\* write_bookings_to_excel(bookings, output_file) and return 0
ExcelFinish ==
  /\ ex_pc = "fetch"
  /\ ex_left = 0
  /\ ex_file' = IF ex_dry_run THEN ex_file ELSE WriteBookingsToExcel(ex_bookings)
  /\ ex_exit' = 0
  /\ ex_pc' = "returned"
  /\ UNCHANGED <<ex_dry_run, ex_left, ex_bookings, ex_error>>
  /\ UNCHANGED NotExcel

NextExcel ==
  \/ \E has_keys \in BOOLEAN, dry_run \in BOOLEAN, windows \in 0..MaxWindows :
        ExcelMain(has_keys, dry_run, windows)
  \/ \E chunk \in WindowData : ExcelFetchWindow(chunk)
  \/ ExcelFetchRaises
  \/ ExcelFinish

(***************************************************************************)
(* get_month_ranges as a function of its three arguments                   *)
(***************************************************************************)
InitMonth ==
  /\ mr_pc = "idle"
  /\ mr_args = [start_year |-> 2026, start_month |-> 1, num_months |-> 0]
  /\ mr_ranges = <<>>

\* list(get_month_ranges(start_year, start_month, num_months))
GetMonthRangesCall(start_year, start_month, num_months) ==
  /\ mr_pc = "idle"
  /\ mr_args' = [start_year |-> start_year, start_month |-> start_month,
                 num_months |-> num_months]
  /\ mr_ranges' = GetMonthRanges(start_year, start_month, num_months)
  /\ mr_pc' = "done"
  /\ UNCHANGED NotMonth

NextMonth ==
  \E start_year \in 2026..2028, start_month \in 1..12, num_months \in 0..MaxMonths :
    GetMonthRangesCall(start_year, start_month, num_months)

Init ==
  /\ InitPlanner /\ InitGb /\ InitFb /\ InitDb /\ InitSink /\ InitConn
  /\ InitLoader /\ InitSync /\ InitVerify /\ InitHook /\ InitSql
  /\ InitMap /\ InitExcel /\ InitMonth

SpecPlanner == Init /\ [][NextPlanner]_vars
SpecGetBookings == Init /\ [][NextGb]_vars
SpecFetchBookings == Init /\ [][NextFb]_vars
SpecSink == Init /\ [][NextSink]_vars
SpecConcurrent == Init /\ [][NextConn]_vars
\* one page walk at a time, by either client
NextPageWalks ==
  \/ fb_pc = "idle" /\ NextGb
  \/ gb_pc = "idle" /\ NextFb
SpecPageWalks == Init /\ [][NextPageWalks]_vars
SpecLoader == Init /\ [][NextLoader]_vars
SpecVerify == Init /\ [][NextVerify]_vars
SpecWebhook == Init /\ [][NextHook]_vars
SpecSqlClient == Init /\ [][NextSql]_vars
SpecMap == Init /\ [][NextMap]_vars
SpecExcel == Init /\ [][NextExcel]_vars
SpecMonth == Init /\ [][NextMonth]_vars
SpecSync == Init /\ [][NextSync]_vars
\* the queue trigger fires for a waiting message, and a started pass runs on
SpecQueue ==
  /\ Init
  /\ [][NextQueue]_vars
  /\ WF_vars(ProcessSyncQueue)
  /\ WF_vars(\/ \E chunk \in {<<>>, <<BookingA1>>} : SyncFetchWindow(chunk)
             \/ SyncFetchRaises \/ SyncBeginUpsert \/ SyncUpsertNext \/ SyncReturn)

(***************************************************************************)
(* C1: for every requested range with start < end the windows the two      *)
(* splitting loops produce are contiguous and non-overlapping, the first   *)
(* starts at start, every window is non-empty and at most 31 days long,    *)
(* and once the loop has finished the last window ends exactly at end; the *)
(* 45-day range [2026-01-01, 2026-02-15) gives [01-01,02-01), [02-01,02-15)*)
(***************************************************************************)
C1_WindowsCoverRange ==
  /\ \A i \in 1..Len(chunks) :
       /\ chunks[i].s < chunks[i].e
       /\ chunks[i].e - chunks[i].s <= 31
       /\ chunks[i].e <= range_end
       /\ i = 1 => chunks[i].s = range_start
       /\ i > 1 => chunks[i].s = chunks[i - 1].e
  /\ (planner_pc = "done" /\ range_start < range_end) =>
       /\ Len(chunks) >= 1
       /\ chunks[Len(chunks)].e = range_end
  /\ (planner_pc = "done" /\ range_start = 0 /\ range_end = 45) =>
       chunks = << [s |-> 0, e |-> 31], [s |-> 31, e |-> 45] >>

C1_Witness ==
  /\ planner = "fetch_all_bookings"
  /\ planner_pc = "done"
  /\ range_start = 0 /\ range_end = 45
  /\ Len(chunks) = 2

(***************************************************************************)
(* C8: get_bookings stops the page walk after the first response that has  *)
(* no pageNavigationToken, or an empty data page, or currentPage >=        *)
(* totalPages (a missing count reads as 0), and asks for a further page    *)
(* only when none of the three holds.                                      *)
(***************************************************************************)
C8_LastBody == gb_served[Len(gb_served)].body
C8_StopCondition ==
  \/ C8_LastBody.token \subseteq {""}
  \/ Len(C8_LastBody.data) = 0
  \/ LET cp == IF C8_LastBody.currentPage = {} THEN {0} ELSE C8_LastBody.currentPage
         tp == IF C8_LastBody.totalPages = {} THEN {0} ELSE C8_LastBody.totalPages
     IN \E c \in cp, t \in tp : c >= t
C8_StopsAtFirstTerminalPage ==
  (gb_served /= <<>> /\ gb_pc /= "raised") =>
     /\ C8_StopCondition => gb_pc = "done"
     /\ ~C8_StopCondition => gb_pc = "request" /\ gb_page_number = Len(gb_served) + 1
     /\ \A i \in 1..(Len(gb_served) - 1) :
          LET b == gb_served[i].body IN
            /\ ~(b.token \subseteq {""})
            /\ b.data /= <<>>
            /\ \E t \in b.totalPages : \A c \in b.currentPage : c < t

C8_Witness ==
  /\ gb_pc = "done"
  /\ Len(gb_served) = 2
  /\ C8_LastBody.token = {"tok"}
  /\ C8_LastBody.data /= <<>>
  /\ C8_LastBody.currentPage = {2} /\ C8_LastBody.totalPages = {2}

(***************************************************************************)
(* C10: for one window get_bookings yields exactly the records of every    *)
(* page it fetched, in page order and in the upstream's order within each  *)
(* page, duplicates kept.                                                  *)
(***************************************************************************)
RECURSIVE C10_Concat(_)
C10_Concat(pages) ==
  IF pages = <<>> THEN <<>>
  ELSE (IF Head(pages).ok /\ Head(pages).json_ok THEN Head(pages).body.data ELSE <<>>)
         \o C10_Concat(Tail(pages))
C10_YieldsEveryRecordInOrder == gb_yielded = C10_Concat(gb_served)

C10_Witness ==
  /\ gb_pc = "done"
  /\ Len(gb_served) = 2
  /\ gb_yielded = <<BookingA1, BookingB1, BookingA1, BookingA1>>

(***************************************************************************)
(* C9: the Function App page fetcher (fetch_bookings) stops the page walk  *)
(* when the upstream returns an empty page or reports current page >=      *)
(* total pages, even if the response still carries a continuation token.   *)
(***************************************************************************)
C9_LastBody == fb_served[Len(fb_served)].body
C9_StopsOnEmptyOrLastPage ==
  (/\ fb_served /= <<>>
   /\ fb_pc /= "raised"
   /\ \/ C9_LastBody.data = <<>>
      \/ \E c \in C9_LastBody.currentPage, t \in C9_LastBody.totalPages : c >= t)
    => fb_pc = "done"

(***************************************************************************)
(* C2 (as stated): upsert is idempotent: for any destination state and any *)
(* batch, applying the batch twice (upsert_to_azure_sql, booking_db        *)
(* upsert_booking, sql_client upsert_booking per row) leaves the           *)
(* destination with the same rows and the same field values as applying it *)
(* once.                                                                   *)
(***************************************************************************)
C2_TwiceEqualsOnce ==
  \A b \in Batches : \A t2 \in clock..MaxClock :
    /\ schema /= "sql_client" =>
         LET once == UpsertToAzureSql(Bookings, b, clock).table IN
           /\ UpsertToAzureSql(once, b, t2).table = once
           /\ \A i \in 1..Len(b) :
                LET one == UpsertBooking(Bookings, b[i], clock).table IN
                  UpsertBooking(one, b[i], t2).table = one
    /\ schema /= "booking_db" =>
         LET once == SyncBookingsToSql(Bookings, b, clock).table IN
           SyncBookingsToSql(once, b, t2).table = once

(***************************************************************************)
(* C2 (amended): applying a batch a second time leaves the same rows, in   *)
(* the same number, with the same booking numbers, the same mapped field   *)
(* values and the same created_at; only the store's own audit timestamp    *)
(* (updated_at, SyncedAt), which every upsert sets to the time of the      *)
(* statement, may differ.                                                  *)
(***************************************************************************)
C2_Mapped(table) ==
  [i \in DOMAIN table |->
     [booking_number |-> table[i].booking_number, val |-> table[i].val,
      created_at |-> table[i].created_at]]
C2_MappedFA(table) ==
  [i \in DOMAIN table |-> [BookingNumber |-> table[i].BookingNumber, val |-> table[i].val]]
C2_TwiceEqualsOnceButAuditStamp ==
  \A b \in Batches : \A t2 \in clock..MaxClock :
    /\ schema /= "sql_client" =>
         LET once == UpsertToAzureSql(Bookings, b, clock).table IN
           /\ C2_Mapped(UpsertToAzureSql(once, b, t2).table) = C2_Mapped(once)
           /\ \A i \in 1..Len(b) :
                LET one == UpsertBooking(Bookings, b[i], clock).table IN
                  C2_Mapped(UpsertBooking(one, b[i], t2).table) = C2_Mapped(one)
    /\ schema /= "booking_db" =>
         LET once == SyncBookingsToSql(Bookings, b, clock).table IN
           C2_MappedFA(SyncBookingsToSql(once, b, t2).table) = C2_MappedFA(once)

\* the loader has applied a two-row batch a second time, later than the first:
\* both rows were inserted earlier and updated now
C2_Witness ==
  /\ sink_call = "upsert_to_azure_sql"
  /\ Len(sink_rows) = 2
  /\ Len(Bookings) = 2
  /\ sink_ret = 2
  /\ \A i \in 1..2 :
       /\ Bookings[i].booking_number = sink_rows[i].booking_number
       /\ Bookings[i].val = sink_rows[i].val
       /\ Bookings[i].created_at < Bookings[i].updated_at
       /\ Bookings[i].updated_at = clock

(***************************************************************************)
(* C4: when one batch passed to upsert_to_azure_sql holds two rows with    *)
(* the same booking number and different field values, then after the      *)
(* upsert exactly one row for that booking number exists and it holds the  *)
(* values of the row processed last.                                       *)
(***************************************************************************)
C4_LastRowWins ==
  (sink_call = "upsert_to_azure_sql" /\ ~sink_raised) =>
    \A i, j \in 1..Len(sink_rows) :
      (/\ i < j
       /\ sink_rows[i].booking_number = sink_rows[j].booking_number
       /\ sink_rows[i].val /= sink_rows[j].val
       /\ \A k \in (j + 1)..Len(sink_rows) :
            sink_rows[k].booking_number /= sink_rows[j].booking_number)
      => /\ KeyCount(Bookings, sink_rows[j].booking_number) = 1
         /\ \A n \in DOMAIN Bookings :
              Bookings[n].booking_number = sink_rows[j].booking_number
                => Bookings[n].val = sink_rows[j].val

C4_Witness ==
  /\ sink_call = "upsert_to_azure_sql"
  /\ sink_rows = << [booking_number |-> "B-100", val |-> 1],
                    [booking_number |-> "B-100", val |-> 2] >>
  /\ sink_ret = 2
  /\ Len(Bookings) = 1
  /\ Bookings[1].val = 2

(***************************************************************************)
(* C3: for every interleaving of the update step and the insert step of    *)
(* two callers upserting the same booking number (two webhook deliveries,  *)
(* or a webhook and a bulk load) the destination never holds two rows for  *)
(* that booking number, neither committed nor in any caller's view.        *)
(***************************************************************************)
C3_NeverTwoRowsPerBooking ==
  \A r \in MappedRows :
    /\ KeyCount(Bookings, r.booking_number) <= 1
    /\ \A c \in Callers : KeyCount(Visible(c), r.booking_number) <= 1

\* both deliveries found no row to update, one inserted and committed, the
\* other's insert came second
C3_Witness ==
  /\ conn_pc["hook1"] = "done"
  /\ conn_pc["hook2"] = "failed"
  /\ conn_rows["hook1"] = << [booking_number |-> "B-100", val |-> 1] >>
  /\ conn_rows["hook2"] = << [booking_number |-> "B-100", val |-> 2] >>
  /\ KeyCount(Bookings, "B-100") = 1

(***************************************************************************)
(* C7: fail-fast in the SQL bulk loader: when fetching any window fails    *)
(* (HTTP error or JSON decode error in fetch_bookings_for_range) the pass  *)
(* is aborted: no later window is fetched and no row of the pass is        *)
(* upserted into the destination.                                          *)
(***************************************************************************)
C7_FetchFailureAbortsPass ==
  ld_errors /= <<>> =>
    /\ \A i \in DOMAIN ld_requests : ld_requests[i].window <= ld_errors[1]
    /\ Bookings = <<>>

C6_AllWindowsFetched ==
  /\ sync_windows /= <<>>
  /\ sync_windows[Len(sync_windows)].e = sync_now + SYNC_DAYS_FORWARD
  /\ sync_pc \in {"upsert", "done", "raised"}

C11_Payload(resp) == IF resp.json_ok THEN resp.body ELSE EmptyBody
C11_RaisedWith(i) ==
  /\ i = Len(gb_served)
  /\ gb_pc = "raised"
  /\ gb_result = [raised |-> TRUE, status_code |-> gb_served[i].status_code,
                  data |-> C11_Payload(gb_served[i])]
  /\ gb_yielded = C10_Concat(SubSeq(gb_served, 1, i - 1))
C12_MalformedJsonRaises ==
  \A i \in DOMAIN gb_served :
    (gb_served[i].status_code \in 200..299 /\ ~gb_served[i].json_ok) =>
      (i = Len(gb_served) /\ gb_pc = "raised")

(***************************************************************************)
(* C13: the page fetcher never retries: within one page walk each page is  *)
(* requested at most once, and the first failed request ends the walk      *)
(* with the error propagated to the caller (get_bookings, fetch_bookings). *)
(***************************************************************************)
C13_EachPageOnce(requests) ==
  \A i, j \in DOMAIN requests : i /= j => requests[i].pageNumber /= requests[j].pageNumber
C14_NoKeyOnly(rows) == \A i \in DOMAIN rows : rows[i].booking_number = ""
C14_NoStoredEmptyKey ==
  /\ \A n \in DOMAIN Bookings :
       IF schema = "sql_client" THEN Bookings[n].BookingNumber /= ""
                                ELSE Bookings[n].booking_number /= ""
  /\ sink_call = "upsert_to_azure_sql" => \A i \in DOMAIN sink_rows : NonEmptyKey(sink_rows[i])
  /\ C14_NoKeyOnly(sink_rows) => ~sink_raised
C14_EmptyKeyNeverReachesDestination ==
  /\ []C14_NoStoredEmptyKey
  /\ [][C14_NoKeyOnly(sink_rows') => Bookings' = Bookings]_vars

\* the webhook handed a row without a booking number to upsert_booking while
\* the table held rows: False was returned
C14_Witness ==
  /\ sink_call = "upsert_booking"
  /\ sink_rows = <<BookingNoNumber>>
  /\ sink_ret = 0 /\ ~sink_raised
  /\ Bookings /= <<>>

(***************************************************************************)
(* C15: verify_bookeo_signature returns true for a fresh timestamp, a      *)
(* message id and a signature computed as HMAC-SHA256 of                   *)
(* timestamp+messageId+url+body with the correct secret, and returns false *)
(* when any single byte of the body, the timestamp, the message id or the  *)
(* URL is changed while the signature is kept.                             *)
(***************************************************************************)
C15_Called == vf_shared /= "none"
C15_Fresh ==
  /\ IsIntLiteral(vf_args.timestamp)
  /\ Abs(vf_args.now_ms - IntValue(vf_args.timestamp)) <= 120000
C15_OneByteChanged(a, b) ==
  /\ Len(a) = Len(b)
  /\ Cardinality({i \in DOMAIN a : a[i] /= b[i]}) = 1
\* the request carries exactly what was signed with the secret
C15_AsSigned(sg) ==
  /\ sg.key = Secret
  /\ sg.timestamp = vf_args.timestamp /\ sg.message_id = vf_args.message_id
  /\ sg.url = vf_args.url /\ sg.body = vf_args.body
\* the request differs from what was signed with the secret in one byte of one field
C15_Tampered(sg) ==
  /\ sg.key = Secret
  /\ \E f \in {"timestamp", "message_id", "url", "body"} :
       /\ C15_OneByteChanged(sg[f], vf_args[f])
       /\ \A g \in {"timestamp", "message_id", "url", "body"} \ {f} : sg[g] = vf_args[g]
C15_TrueIffUntampered ==
  \A sg \in vf_signed :
    /\ (C15_AsSigned(sg) /\ C15_Fresh /\ vf_args.message_id /= <<>>)
         => (vf_shared = "True" /\ vf_webhook = "True")
    /\ (C15_Called /\ C15_Tampered(sg)) => (vf_shared = "False" /\ vf_webhook = "False")

(***************************************************************************)
(* C17: verify_bookeo_signature returns false whenever the timestamp       *)
(* header, the message-id header or the signature header is empty,         *)
(* whatever the other inputs are.                                          *)
(***************************************************************************)
C17_EmptyHeaderIsFalse ==
  (/\ C15_Called
   /\ \/ vf_args.timestamp = <<>>
      \/ vf_args.message_id = <<>>
      \/ vf_args.signature.kind = "empty")
  => (vf_shared = "False" /\ vf_webhook = "False")

\* a fresh request with an empty message id, signed with the secret as it is
C17_Witness ==
  /\ vf_args.message_id = <<>>
  /\ \E sg \in vf_signed : C15_AsSigned(sg)
  /\ C15_Fresh
  /\ vf_args.body = <<97>>
  /\ vf_shared = "False" /\ vf_webhook = "False"

(***************************************************************************)
(* C18: verify_bookeo_signature returns false whenever                     *)
(* |now_ms - timestamp_ms| > 120000, for timestamps in the past and in the *)
(* future and even with a correct signature; a timestamp exactly 120000 ms *)
(* away is not rejected by the freshness check: with a correct signature   *)
(* the request verifies.                                                   *)
(***************************************************************************)
C18_Distance == Abs(vf_args.now_ms - IntValue(vf_args.timestamp))
C18_FreshnessWindow ==
  (C15_Called /\ IsIntLiteral(vf_args.timestamp)) =>
    /\ C18_Distance > 120000 => (vf_shared = "False" /\ vf_webhook = "False")
    /\ (/\ C18_Distance = 120000
        /\ \E sg \in vf_signed : C15_AsSigned(sg)
        /\ vf_args.message_id /= <<>> /\ vf_args.body /= <<>>)
       => (vf_shared = "True" /\ vf_webhook = "True")

\* a correctly signed request whose timestamp is 120001 ms in the future
C18_Witness ==
  /\ vf_args.now_ms = 500001
  /\ vf_args.timestamp = <<54, 50, 48, 48, 48, 50>>
  /\ \E sg \in vf_signed : C15_AsSigned(sg)
  /\ vf_args.message_id /= <<>> /\ vf_args.body /= <<>>
  /\ vf_shared = "False" /\ vf_webhook = "False"

(***************************************************************************)
(* C19: verify_bookeo_signature never raises: for every input, including a *)
(* non-numeric timestamp, a body that is not valid UTF-8 and a signature   *)
(* containing non-ASCII characters, it returns false instead of throwing.  *)
(***************************************************************************)
C19_NeverRaises ==
  /\ vf_shared \in {"none", "True", "False"}
  /\ vf_webhook \in {"none", "True", "False"}

(***************************************************************************)
(* C16: a webhook request is accepted (a sync request enqueued, or the     *)
(* booking upserted) only after signature verification has succeeded for   *)
(* that request; a request whose signature, timestamp or message-id header *)
(* is empty is always rejected and never triggers a sync or a write.       *)
(***************************************************************************)
C16_AcceptedOnlyIfVerified ==
  wh_last.handler /= "none" =>
    /\ wh_last.accepted => wh_last.verified = "True"
    /\ (\/ wh_last.signature.kind = "empty"
        \/ wh_last.req.timestamp = <<>>
        \/ wh_last.req.message_id = <<>>)
       => (~wh_last.accepted /\ wh_last.status \notin 200..299)

(***************************************************************************)
(* C20: both webhook handlers answer a request that fails signature        *)
(* verification with HTTP status 401.                                      *)
(***************************************************************************)
C20_FailedVerificationIs401 ==
  (wh_last.handler /= "none" /\ wh_last.verified = "False") => wh_last.status = 401

(***************************************************************************)
(* C21: the direct-upsert webhook handler answers every verified request   *)
(* whose payload is malformed (body not JSON, JSON that is not an object,  *)
(* missing or empty item, or an item that is not a booking object) with    *)
(* HTTP status 400, and 500 is returned only when the destination store    *)
(* itself fails.                                                           *)
(***************************************************************************)
C21_Malformed(payload) ==
  ~payload.ok \/ ~payload.is_object \/ payload.item = {} \/ ~payload.item_is_object
C21_MalformedPayloadIs400 ==
  wh_last.handler = "webhook" =>
    /\ (wh_last.verified = "True" /\ C21_Malformed(JsonLoads(wh_last.req.body)))
         => wh_last.status = 400
    /\ (wh_last.verified = "True" /\ wh_last.status = 500) => wh_last.store_failed

(***************************************************************************)
(* C22: a webhook request that fails verification (bad, stale or missing   *)
(* signature) has no effect: the destination table is not read or written, *)
(* no connection is opened, nothing is enqueued and the sync state is      *)
(* unchanged.                                                              *)
(***************************************************************************)
C22_Verdict(last) ==
  IF last.handler = "function_app"
    THEN SharedVerify(last.req.body, last.req.timestamp, last.req.message_id,
                      last.signature, FunctionAppWebhookUrl(last.req, last.settings),
                      last.settings.BOOKEO_SECRET_KEY, last.req.now_ms, 120)
    ELSE WebhookVerify(last.req.body, last.req.timestamp, last.req.message_id,
                       last.signature, last.settings.BOOKEO_WEBHOOK_URL,
                       last.settings.BOOKEO_SECRET_KEY, last.req.now_ms)
C22_FailedVerificationHasNoEffect ==
  [][(wh_count' /= wh_count /\ C22_Verdict(wh_last') /= "True")
       => /\ UNCHANGED <<schema, Bookings, sync_queue, lastSyncTime>>
          /\ ~wh_last'.connected]_vars

(***************************************************************************)
(* C23: no fetch, map or upsert work is performed before the webhook       *)
(* handler returns: handling a webhook request opens no connection and     *)
(* leaves the schema and the table as they were; store writes happen only  *)
(* in a later worker step.                                                 *)
(***************************************************************************)
C23_NoInlineStoreWork ==
  [][wh_count' /= wh_count
       => /\ UNCHANGED <<schema, Bookings>>
          /\ ~wh_last'.connected]_vars

(***************************************************************************)
(* C24: when a booking number was fetched more than once in a pass with    *)
(* different field values, the deduplicated list holds the record seen     *)
(* last, and the row stored for that number after the pass holds the       *)
(* last-seen values.                                                       *)
(***************************************************************************)
C24_LastSeen(number) ==
  LET idx == {i \in 1..Len(sync_all) : sync_all[i].booking_number = number}
      last == CHOOSE i \in idx : \A j \in idx : j <= i
  IN  sync_all[last]
C24_DedupKeepsLastSeen ==
  /\ sync_pc \in {"upsert", "done"}
       => \A i \in 1..Len(sync_unique) :
            sync_unique[i] = C24_LastSeen(sync_unique[i].booking_number)
  /\ (sync_pc = "done" /\ schema = "sql_client")
       => \A i \in 1..Len(sync_unique) : \A r \in 1..Len(Bookings) :
            Bookings[r].BookingNumber = sync_unique[i].booking_number
              => Bookings[r].val = C24_LastSeen(sync_unique[i].booking_number).val

(***************************************************************************)
(* C25: all rows of one upsert call commit together: when the statement    *)
(* for a row of the batch fails (sync_bookings_to_sql raises), no row of   *)
(* that batch is in the table.                                             *)
(***************************************************************************)
C25_AllRowsCommitTogether ==
  sq_pc = "raised"
    => \A i \in 1..Len(sq_bookings) : \A r \in 1..Len(Bookings) :
         Bookings[r].BookingNumber /= sq_bookings[i].booking_number

(***************************************************************************)
(* C28: a record with an unparsable timestamp is not dropped and does not  *)
(* abort the batch: parse_datetime returns the first 19 characters of a    *)
(* literal it cannot parse, and once sync_bookings_to_sql has come to a    *)
(* numbered booking with such a timestamp, the call has not raised and the *)
(* booking's row is in the table.                                          *)
(***************************************************************************)
C28_Unparsable(val) ==
  val.type /= "none" /\ val.v /= <<>>
    /\ ~(val.type = "str" /\ FromIsoformat(ReplaceZ(val.v)))
C28_UnparsableTimestampStillUpserted ==
  /\ \A val \in Timestamps :
       (C28_Unparsable(val) /\ val.type = "str")
         => ParseDatetime(val) =
              [raised |-> FALSE, value |-> {SubSeq(val.v, 1, Min(19, Len(val.v)))}]
  /\ \A i \in 1..Len(sq_bookings) :
       (/\ sq_pc \in {"loop", "done", "raised"}
        /\ sq_bookings[i].booking_number /= ""
        /\ C28_Unparsable(sq_bookings[i].startTime)
        /\ (i < sq_i \/ (i = sq_i /\ sq_pc = "raised")))
         => /\ sq_pc /= "raised"
            /\ \E r \in 1..Len(Bookings) :
                 /\ Bookings[r].BookingNumber = sq_bookings[i].booking_number
                 /\ Bookings[r].val = sq_bookings[i].val

(***************************************************************************)
(* C26: the count a sink returns is the number of rows it upserted:        *)
(* sync_bookings_to_sql returns the number of bookings for which the       *)
(* insert-or-update was executed (those with a booking number),            *)
(* upsert_to_azure_sql the number of rows it processed.                    *)
(***************************************************************************)
C26_CountEqualsRowsUpserted ==
  ~sink_raised =>
    /\ sink_call = "sync_bookings_to_sql" => sink_ret = Len(FilterRows(sink_rows))
    /\ sink_call = "upsert_to_azure_sql" => sink_ret = Len(sink_rows)

(***************************************************************************)
(* C27: the mapped currency is that of the first present sub-object among  *)
(* totalGross, totalNet, totalPaid: a price with no totalGross but a       *)
(* totalNet (or only a totalPaid) that carries a currency yields that      *)
(* currency in the row of parse_booking_for_db.                            *)
(***************************************************************************)
C27_FirstPresent(price) ==
  IF price.totalGross /= {} THEN price.totalGross
  ELSE IF price.totalNet /= {} THEN price.totalNet ELSE price.totalPaid
C27_CurrencyFromFirstPresent ==
  mp_pc = "done" =>
    /\ mp_currency.booking_db = SubCurrency(C27_FirstPresent(mp_price))
    /\ mp_currency.loader = SubCurrency(C27_FirstPresent(mp_price))

(***************************************************************************)
(* C29: a pass fetches, maps and upserts each window's records as one      *)
(* batch before the next window is fetched: whenever a window is fetched,  *)
(* the numbered bookings of the windows fetched before it are in the table.*)
(***************************************************************************)
C29_UpsertPerWindow ==
  [][Len(sync_windows') > Len(sync_windows)
       => \A i \in 1..Len(sync_all) :
            sync_all[i].booking_number /= ""
              => \E r \in 1..Len(Bookings) :
                   Bookings[r].BookingNumber = sync_all[i].booking_number]_vars

(***************************************************************************)
(* C30: fetch_all_bookings yields each booking once: no booking number     *)
(* occurs twice among the bookings it has yielded, a booking that starts   *)
(* exactly on the boundary shared by two windows included.                 *)
(***************************************************************************)
C30_YieldsEachBookingOnce ==
  planner = "fetch_all_bookings"
    => \A i \in 1..Len(fa_yielded) : \A j \in 1..Len(fa_yielded) :
         fa_yielded[i] = fa_yielded[j] => i = j

(***************************************************************************)
(* C31: when start >= end the window planner produces no window and issues *)
(* no upstream request, and it ends normally with an empty result: it      *)
(* never raises.                                                           *)
(***************************************************************************)
C31_EmptyRangeIsEmptyResult ==
  (planner /= "none" /\ range_start >= range_end)
    => /\ chunks = <<>>
       /\ planner_pc \in {"loop", "done"}
       /\ planner = "fetch_all_bookings" => fa_yielded = <<>>
C31_Witness ==
  /\ planner = "fetch_all_bookings"
  /\ planner_pc = "done"
  /\ range_start >= range_end
  /\ chunks = <<>>

(***************************************************************************)
(* C32: the list returned by fetch_bookings_by_date_range holds no record  *)
(* with an absent or empty bookingNumber and no two records with the same  *)
(* bookingNumber, and every non-empty bookingNumber fetched in any window  *)
(* occurs in it exactly once.                                              *)
(***************************************************************************)
C32_Count(number) ==
  Cardinality({i \in 1..Len(sync_unique) : sync_unique[i].booking_number = number})
C32_ReturnedListIsDeduplicated ==
  sync_pc \in {"upsert", "done"}
    => /\ \A i \in 1..Len(sync_unique) : sync_unique[i].booking_number /= ""
       /\ \A i \in 1..Len(sync_unique) : C32_Count(sync_unique[i].booking_number) = 1
       /\ \A i \in 1..Len(sync_all) :
            sync_all[i].booking_number /= "" => C32_Count(sync_all[i].booking_number) = 1
C32_Witness ==
  /\ sync_pc = "upsert"
  /\ Len(sync_all) = 2
  /\ sync_all[1].booking_number = sync_all[2].booking_number
  /\ Len(sync_unique) = 1

(***************************************************************************)
(* C33: write_bookings_to_excel writes exactly one data row per distinct   *)
(* booking number among its input, and for a number that occurs several    *)
(* times the row holds the values of its last occurrence.                  *)
(***************************************************************************)
C33_LastOccurrence(number) ==
  LET idx == {i \in 1..Len(ex_bookings) : ex_bookings[i].booking_number = number}
  IN  ex_bookings[CHOOSE i \in idx : \A j \in idx : j <= i]
C33_Written == ex_pc = "returned" /\ ex_exit = 0 /\ ~ex_dry_run
C33_OneRowPerNumberLastWins ==
  C33_Written =>
    /\ \A i \in 1..Len(ex_bookings) :
         Cardinality({r \in 1..Len(ex_file) :
                        ex_file[r].booking_number = ex_bookings[i].booking_number}) = 1
    /\ \A r \in 1..Len(ex_file) :
         /\ \E i \in 1..Len(ex_bookings) :
              ex_bookings[i].booking_number = ex_file[r].booking_number
         /\ ex_file[r] = C33_LastOccurrence(ex_file[r].booking_number)
C33_Witness ==
  /\ C33_Written
  /\ ex_bookings = <<BookingA1, BookingB1, BookingA2>>
  /\ ex_file = <<BookingA2, BookingB1>>

(***************************************************************************)
(* C36: in the Excel sync a BookeoAPIError raised while fetching a window  *)
(* ends the run with exit code 1 and leaves the spreadsheet as it was; the *)
(* spreadsheet is written only after every window was fetched and only     *)
(* when --dry-run is not set.                                              *)
(***************************************************************************)
C36_FetchErrorExitsWithoutWriting ==
  [][/\ (ex_error' /\ ~ex_error) => (ex_exit' = 1 /\ ex_pc' = "returned" /\ ex_file' = ex_file)
     /\ ex_file' /= ex_file
          => (ex_pc = "fetch" /\ ex_left = 0 /\ ~ex_dry_run /\ ~ex_error' /\ ex_exit' = 0)]_vars
C36_Witness ==
  /\ ex_error
  /\ ex_exit = 1
  /\ ex_bookings /= <<>>
  /\ ex_file /= <<>>
  /\ ex_file /= WriteBookingsToExcel(ex_bookings)

(***************************************************************************)
(* C34: get_month_ranges(y, m, n) yields exactly n windows, one per        *)
(* consecutive calendar month from (y, m): each runs from the first day of *)
(* its month to the first day of the next month, consecutive windows are   *)
(* contiguous, December is followed by January of the next year, and no    *)
(* window is longer than 31 days.                                          *)
(***************************************************************************)
C34_FirstOf(k) ==
  [year |-> mr_args.start_year + ((mr_args.start_month - 1 + k) \div 12),
   month |-> ((mr_args.start_month - 1 + k) % 12) + 1,
   day |-> 1]
C34_OneWindowPerCalendarMonth ==
  mr_pc = "done" =>
    /\ Len(mr_ranges) = mr_args.num_months
    /\ \A i \in 1..Len(mr_ranges) :
         /\ mr_ranges[i].start = C34_FirstOf(i - 1)
         /\ mr_ranges[i].end = C34_FirstOf(i)
         /\ mr_ranges[i].start.month = 12
              => mr_ranges[i].end = [year |-> mr_ranges[i].start.year + 1, month |-> 1,
                                     day |-> 1]
         /\ DaysInMonth(mr_ranges[i].start.year, mr_ranges[i].start.month) <= 31
         /\ i > 1 => mr_ranges[i].start = mr_ranges[i - 1].end
C34_Witness ==
  /\ mr_pc = "done"
  /\ mr_args = [start_year |-> 2027, start_month |-> 12, num_months |-> 2]
  /\ mr_ranges[2].end = [year |-> 2028, month |-> 2, day |-> 1]

(***************************************************************************)
(* C35: in run_sync every window is fetched before the first upsert is     *)
(* executed, so a fetch failure in any window leaves the destination table *)
(* unchanged, and the exception is re-raised to the trigger.               *)
(***************************************************************************)
C35_FetchFailureLeavesTableUnchanged ==
  [][/\ Bookings' /= Bookings => (sync_pc = "upsert" /\ ~(sync_current < sync_end))
     /\ (sync_pc = "loop" /\ sync_current < sync_end /\ sync_pc' /= "loop")
          => (sync_pc' = "raised" /\ Bookings' = Bookings /\ schema' = schema)]_vars
C35_Witness ==
  /\ sync_pc = "raised"
  /\ sync_current < sync_end
  /\ Len(sync_windows) >= 2
  /\ sync_all /= <<>>
  /\ Bookings = <<>>

(***************************************************************************)
(* C37, as stated: when a response carries a continuation token and a      *)
(* non-empty page but omits currentPage or totalPages, get_bookings stops  *)
(* after that page and requests no further page of the window.             *)
(***************************************************************************)
C37_LastPage == gb_result.data
C37_TokenAndRecords ==
  /\ gb_served /= <<>>
  /\ gb_pc \in {"request", "done"}
  /\ Truthy(C37_LastPage.token)
  /\ C37_LastPage.data /= <<>>
C37_MissingPageInfoStopsWalk ==
  (C37_TokenAndRecords /\ (C37_LastPage.currentPage = {} \/ C37_LastPage.totalPages = {}))
    => gb_pc = "done"

(***************************************************************************)
(* C37, amended: with a token and a non-empty page, a response that omits  *)
(* totalPages (with or without currentPage) stops the walk after that      *)
(* page; a response that omits only currentPage while totalPages is at     *)
(* least 1 does not stop it: currentPage reads as 0 and the next page is   *)
(* requested.                                                              *)
(***************************************************************************)
C37_StopsOnlyWhenTotalPagesMissing ==
  C37_TokenAndRecords =>
    /\ C37_LastPage.totalPages = {} => gb_pc = "done"
    /\ (C37_LastPage.currentPage = {} /\ C37_LastPage.totalPages /= {})
         => (gb_pc = "request" /\ gb_page_number = Len(gb_served) + 1)
C37_Witness ==
  /\ C37_TokenAndRecords
  /\ C37_LastPage.totalPages = {}
  /\ C37_LastPage.currentPage /= {}
  /\ gb_pc = "done"
  /\ Len(gb_served) = 1

(***************************************************************************)
(* C38, as stated: fetch_bookings_for_range requests pages 1, 2, ... in    *)
(* increasing order without repeating a page and makes at most totalPages  *)
(* requests when the upstream reports a constant totalPages; a request or  *)
(* JSON error stops the walk and the records fetched so far are returned   *)
(* as if the window were complete.                                         *)
(***************************************************************************)
C38_Of(window) == SelectSeq(ld_requests, LAMBDA r : r.window = window)
C38_Constant(window, total) ==
  /\ C38_Of(window) /= <<>>
  /\ \A i \in 1..Len(C38_Of(window)) : C38_Of(window)[i].totalPages = {total}
C38_PagesInOrder ==
  \A w \in 1..Len(ld_ranges) :
    /\ \A i \in 1..Len(C38_Of(w)) : C38_Of(w)[i].pageNumber = i
    /\ \A i \in 1..(Len(C38_Of(w)) - 1) : ~C38_Of(w)[i].failed
C38_ErrorReturnsFetched ==
  [][Len(ld_errors') > Len(ld_errors)
       => /\ ld_all_bookings' = ld_all_bookings \o ld_bookings
          /\ (ld_m' = ld_m + 1 \/ ld_pc' = "load")]_vars
C38_AtMostTotalPagesRequests ==
  /\ [](C38_PagesInOrder
        /\ \A w \in 1..Len(ld_ranges) : \A total \in 0..2 :
             C38_Constant(w, total) => Len(C38_Of(w)) <= total)
  /\ C38_ErrorReturnsFetched

(***************************************************************************)
(* C38, amended: as above, but the first page is always requested: with a  *)
(* constant totalPages T the walk makes at most max(1, T) requests (one    *)
(* request when the upstream reports totalPages 0).                        *)
(***************************************************************************)
C38_AtMostTotalPagesButAtLeastOne ==
  /\ [](C38_PagesInOrder
        /\ \A w \in 1..Len(ld_ranges) : \A total \in 0..2 :
             C38_Constant(w, total)
               => Len(C38_Of(w)) <= (IF total = 0 THEN 1 ELSE total))
  /\ C38_ErrorReturnsFetched
C38_Witness ==
  /\ Len(ld_ranges) = 2
  /\ C38_Constant(1, 2)
  /\ Len(C38_Of(1)) = 2
  /\ ld_errors = <<2>>
  /\ ld_pc = "load"

(***************************************************************************)
(* C39: in the direct-upsert webhook path, when two deliveries for the     *)
(* same not-yet-stored booking number both find no row to update before    *)
(* either inserts, the insert that comes second is rejected by the primary *)
(* key: that handler fails (500), its transaction holds nothing, and the   *)
(* table keeps exactly one row, with the first inserter's values.          *)
(***************************************************************************)
C39_SecondInsert(c) ==
  /\ conn_pc[c] = "insert"
  /\ conn_pc'[c] /= "insert"
  /\ KeyCount(Bookings, CurrentRow(c).booking_number) > 0
C39_SecondInsertIsRejected ==
  [][\A c \in Hooks :
       C39_SecondInsert(c)
         => /\ conn_pc'[c] = "failed"
            /\ conn_own'[c] = <<>>
            /\ Bookings' = Bookings
            /\ KeyCount(Bookings', CurrentRow(c).booking_number) = 1
            /\ \A c2 \in Hooks \ {c} :
                 (/\ conn_pc[c2] = "done"
                  /\ conn_pc["load"] = "idle"
                  /\ conn_rows[c2][1].booking_number = CurrentRow(c).booking_number)
                   => \E r \in 1..Len(Bookings') :
                        /\ Bookings'[r].booking_number = CurrentRow(c).booking_number
                        /\ Bookings'[r].val = conn_rows[c2][1].val]_vars
C39_Witness ==
  /\ conn_pc = [c \in Callers |->
                  IF c = "hook1" THEN "done" ELSE IF c = "hook2" THEN "failed" ELSE "idle"]
  /\ conn_rows["hook1"] = <<BookingA1>>
  /\ conn_rows["hook2"] = <<BookingA2>>
  /\ Len(Bookings) = 1
  /\ Bookings[1].val = BookingA1.val

(***************************************************************************)
(* C40: a request the queueing handler answers with 200 puts exactly one   *)
(* "sync" message on the queue in the same step, a request it answers with *)
(* any other status (400, 403) puts none; the queue trigger takes one      *)
(* message and starts one run_sync pass, no pass starts without a message, *)
(* and under a fair queue trigger every waiting message leads to a pass.   *)
(***************************************************************************)
C40_Delivered == wh_count' /= wh_count /\ wh_last'.handler = "function_app"
C40_PassStarts == sync_pc' = "loop" /\ sync_pc /= "loop"
C40_PassStarted == sync_pc = "loop" /\ sync_windows = <<>>
====
